---- MODULE Spec2Model ----
(***************************************************************************)
(* Verification model of the pronunciation scoring engine of hermes        *)
(* (src/src/ml/pronunciation_score.py).                                    *)
(*                                                                         *)
(* Strings are sequences of one-character strings.  Python floats are      *)
(* modelled as exact rationals [n |-> numerator, d |-> denominator > 0]    *)
(* kept in lowest terms, so rounding errors of binary floating point are   *)
(* outside the model.  Each function is modelled as an operator that       *)
(* follows its code; each specification draws the arguments of one         *)
(* function in its initial states and applies the function in one step.    *)
(***************************************************************************)
EXTENDS Integers, Sequences, FiniteSets, TLC

VARIABLES
    pc,             \* position of the modelled call: "<fn>_call" or "<fn>_done"
    user_ipa,       \* _find_phoneme_mismatches: argument user_ipa
    target_ipa,     \* _find_phoneme_mismatches: argument target_ipa
    dp_dist,        \* _find_phoneme_mismatches: dp[m][n] of the filled table
    mismatches,     \* _find_phoneme_mismatches: returned list
    recognized,     \* _calculate_phoneme_similarity: argument recognized
    target,         \* _calculate_phoneme_similarity: argument target
    similarity,     \* _calculate_phoneme_similarity: returned value
    user_text,          \* score_pronunciation: user_recognition["text"]
    target_word,        \* score_pronunciation: argument target_word
    dtw_distance,       \* score_pronunciation: distance from compute_dtw_distance
    target_word_clean,  \* score_pronunciation: target_word.lower().strip()
    phoneme_match,      \* score_pronunciation: the word similarity
    lenient,            \* score_pronunciation: TRUE iff the lenient branch ran
    dtw_score,          \* score_pronunciation: local dtw_score
    phoneme_score,      \* score_pronunciation: local phoneme_score
    overall_score,      \* score_pronunciation: local overall_score
    feedback,           \* score_pronunciation: parts joined by _generate_feedback
    dtw_lib,            \* the external chain librosa.feature.mfcc + fastdtw as a
                        \* function of the two noise draws of one call
    calls,              \* number of score_pronunciation calls made so far
    ext,                \* what the external stages did in the latest call
    prev_result,        \* what the call before the latest one returned or raised
    result,             \* what the latest call returned or raised
    PRONUNCIATION_SCORER,  \* callbacks.py: the module-level cached scorer
    model_loads,        \* number of PronunciationScore constructions so far
    target_lang,        \* handle_pronunciation_scoring: local target_lang
    scorer_arg,         \* handle_pronunciation_scoring: local scorer
    requests,           \* number of scoring requests handled so far
    reply,              \* what the handler sent back for the latest request
    mfcc_user,          \* compute_dtw_distance: user_seq, a list of frames
    mfcc_ref,           \* compute_dtw_distance: ref_seq, a list of frames
    dtw_out,            \* compute_dtw_distance: returned value or raised error
    lev_s1,             \* _levenshtein_distance: argument s1
    lev_s2,             \* _levenshtein_distance: argument s2
    lev_distance,       \* _levenshtein_distance: returned value
    fb_args,            \* _generate_feedback: the six arguments of one call
    fb_parts,           \* _generate_feedback: feedback_parts before the join
    fu_distance,        \* score calculation: the DTW distance of both runs
    fu_sim_lo,          \* score calculation: phoneme_match of the first run
    fu_sim_hi,          \* score calculation: phoneme_match of the second run
    fu_lo,              \* score calculation: the scores of the first run
    fu_hi,              \* score calculation: the scores of the second run
    wav,                \* FileStreamer.frames: the samples read from the file
    chunk,              \* FileStreamer: self.chunk, in samples
    overlap,            \* FileStreamer: self.overlap, in samples
    pos,                \* FileStreamer.frames: local pos
    seq,                \* FileStreamer.frames: local seq
    yielded,            \* FileStreamer.frames: the (frame, seq) pairs yielded
    user_data,          \* telegram bot: context.user_data of one chat
    routed,             \* telegram bot: handler the latest voice message went to
    last_update,        \* telegram bot: the update handled by the latest step
    updates             \* telegram bot: number of updates handled so far

alignVars == <<user_ipa, target_ipa, dp_dist, mismatches>>

simVars == <<recognized, target, similarity>>

scoreInputs == <<user_text, target_word, dtw_distance>>

scoreVars == <<scoreInputs, target_word_clean, phoneme_match, lenient,
               dtw_score, phoneme_score, overall_score, feedback>>

pipeVars == <<dtw_lib, calls, ext, prev_result, result>>

scorerVars == <<PRONUNCIATION_SCORER, model_loads, target_lang, scorer_arg,
                requests, reply>>

dtwVars == <<mfcc_user, mfcc_ref, dtw_out>>

serviceVars == <<pipeVars, scorerVars, dtwVars>>

levVars == <<lev_s1, lev_s2, lev_distance>>

fbVars == <<fb_args, fb_parts>>

fusionVars == <<fu_distance, fu_sim_lo, fu_sim_hi, fu_lo, fu_hi>>

streamVars == <<wav, chunk, overlap, pos, seq, yielded>>

sessionVars == <<user_data, routed, last_update, updates>>

appVars == <<levVars, fbVars, fusionVars, streamVars, sessionVars>>

vars == <<pc, alignVars, simVars, scoreVars, serviceVars, appVars>>

(***************************************************************************)
(* Bounds of the model.                                                    *)
(***************************************************************************)
MaxIpaLen == 3

MaxTextLen == 2

\* dtw distances are the multiples of 1/DistDen up to MaxDistSteps/DistDen
DistDen == 4

MaxDistSteps == 48

(***************************************************************************)
(* Generic helpers.                                                        *)
(***************************************************************************)
StringsUpTo(alphabet, n) == UNION {[1..k -> alphabet] : k \in 0..n}

Min2(a, b) == IF a <= b THEN a ELSE b

Max2(a, b) == IF a >= b THEN a ELSE b

Min3(a, b, c) == Min2(a, Min2(b, c))

\* list(reversed(s))
Reversed(s) == [k \in 1..Len(s) |-> s[Len(s) + 1 - k]]

\* Python's None
None == "None"

\* Python's None where the other values are objects; every object of the
\* model is a record with a field kind
NoneObj == [kind |-> "None"]

\* str.replace(" ", "")
RemoveSpaces(s) == SelectSeq(s, LAMBDA c : c # " ")

(***************************************************************************)
(* _find_phoneme_mismatches: the DP table.                                 *)
(* A table is a sequence of rows; dp[i][j] is table[i+1][j+1].             *)
(***************************************************************************)
DpAt(dp, i, j) == dp[i + 1][j + 1]

\* dp[0][j] = j
DpFirstRow(n) == [k \in 1..(n + 1) |-> k - 1]

\* the recurrence for one cell dp[i][j], i >= 1, j >= 1, given row i-1 and
\* the part of row i filled so far
DpCell(prev, cur, u, t, i, j) ==
    IF u[i] = t[j]
    THEN prev[j]
    ELSE 1 + Min3(prev[j + 1],    \* dp[i-1][j]   deletion
                  cur[j],         \* dp[i][j-1]   insertion
                  prev[j])        \* dp[i-1][j-1] substitution

RECURSIVE DpFillRow(_, _, _, _, _)
DpFillRow(prev, cur, u, t, i) ==
    IF Len(cur) > Len(t)
    THEN cur
    ELSE DpFillRow(prev, Append(cur, DpCell(prev, cur, u, t, i, Len(cur))), u, t, i)

RECURSIVE DpFill(_, _, _)
DpFill(rows, u, t) ==
    IF Len(rows) > Len(u)
    THEN rows
    ELSE DpFill(Append(rows, DpFillRow(rows[Len(rows)], <<Len(rows)>>, u, t, Len(rows))), u, t)

DpTable(u, t) == DpFill(<<DpFirstRow(Len(t))>>, u, t)

(***************************************************************************)
(* _find_phoneme_mismatches: the backtrack loop.                           *)
(***************************************************************************)
IsMatchStep(u, t, i, j) == i > 0 /\ j > 0 /\ u[i] = t[j]

IsSubstitutionStepNoCost(dp, u, t, i, j) == i > 0 /\ j > 0

IsSubstitutionStep(dp, u, t, i, j) ==
    i > 0 /\ j > 0 /\ DpAt(dp, i, j) = DpAt(dp, i - 1, j - 1) + 1

IsOmissionStep(dp, u, t, i, j) ==
    j > 0 /\ DpAt(dp, i, j) = DpAt(dp, i, j - 1) + 1

SubstitutionMismatchZeroBased(u, t, i, j) ==
    [position |-> j - 1, expected |-> t[j], actual |-> u[i], type |-> "substitution"]

SubstitutionMismatch(u, t, i, j) ==
    [position |-> j, expected |-> t[j], actual |-> u[i], type |-> "substitution"]

OmissionMismatch(u, t, i, j) ==
    [position |-> j, expected |-> t[j], actual |-> None, type |-> "omission"]

InsertionMismatchAtTarget(u, t, i, j) ==
    [position |-> j, expected |-> None, actual |-> u[i], type |-> "insertion"]

InsertionMismatch(u, t, i, j) ==
    [position |-> i, expected |-> None, actual |-> u[i], type |-> "insertion"]

\* the while loop; acc is the list in append order (end of the words first)
RECURSIVE BacktrackInsertionBeforeOmission(_, _, _, _, _, _)
BacktrackInsertionBeforeOmission(dp, u, t, i, j, acc) ==
    IF ~(i > 0 \/ j > 0)
    THEN acc
    ELSE IF IsMatchStep(u, t, i, j)
    THEN BacktrackInsertionBeforeOmission(dp, u, t, i - 1, j - 1, acc)
    ELSE IF IsSubstitutionStep(dp, u, t, i, j)
    THEN BacktrackInsertionBeforeOmission(dp, u, t, i - 1, j - 1,
                                          Append(acc, SubstitutionMismatch(u, t, i, j)))
    ELSE IF i > 0 /\ DpAt(dp, i, j) = DpAt(dp, i - 1, j) + 1
    THEN BacktrackInsertionBeforeOmission(dp, u, t, i - 1, j,
                                          Append(acc, InsertionMismatch(u, t, i, j)))
    ELSE BacktrackInsertionBeforeOmission(dp, u, t, i, j - 1,
                                          Append(acc, OmissionMismatch(u, t, i, j)))

RECURSIVE Backtrack(_, _, _, _, _, _)
Backtrack(dp, u, t, i, j, acc) ==
    IF ~(i > 0 \/ j > 0)
    THEN acc
    ELSE IF IsMatchStep(u, t, i, j)
    THEN Backtrack(dp, u, t, i - 1, j - 1, acc)
    ELSE IF IsSubstitutionStep(dp, u, t, i, j)
    THEN Backtrack(dp, u, t, i - 1, j - 1, Append(acc, SubstitutionMismatch(u, t, i, j)))
    ELSE IF IsOmissionStep(dp, u, t, i, j)
    THEN Backtrack(dp, u, t, i, j - 1, Append(acc, OmissionMismatch(u, t, i, j)))
    ELSE Backtrack(dp, u, t, i - 1, j, Append(acc, InsertionMismatch(u, t, i, j)))

\* the whole function: [dist |-> dp[m][n], list |-> returned list]
FindPhonemeMismatches(uipa, tipa) ==
    LET user_phones == RemoveSpaces(uipa)
        target_phones == RemoveSpaces(tipa)
        m == Len(user_phones)
        n == Len(target_phones)
        dp == DpTable(user_phones, target_phones)
    IN  [dist |-> DpAt(dp, m, n),
         list |-> Reversed(Backtrack(dp, user_phones, target_phones, m, n, <<>>))]

(***************************************************************************)
(* Exact rationals standing for Python floats.                             *)
(***************************************************************************)
Abs(x) == IF x < 0 THEN -x ELSE x

RECURSIVE GCD(_, _)
GCD(a, b) == IF b = 0 THEN a ELSE GCD(b, a % b)

\* the rational n/d, d > 0, in lowest terms
Rat(n, d) == LET g == GCD(Abs(n), d) IN [n |-> n \div g, d |-> d \div g]

RInt(k) == [n |-> k, d |-> 1]

RAdd(a, b) == Rat(a.n * b.d + b.n * a.d, a.d * b.d)

RSub(a, b) == Rat(a.n * b.d - b.n * a.d, a.d * b.d)

RMul(a, b) == Rat(a.n * b.n, a.d * b.d)

RLt(a, b) == a.n * b.d < b.n * a.d

RLe(a, b) == a.n * b.d <= b.n * a.d

\* Python's max(a, b) and min(a, b)
RMax(a, b) == IF RLt(a, b) THEN b ELSE a

RMin(a, b) == IF RLt(b, a) THEN b ELSE a

(***************************************************************************)
(* Python string methods on sequences of characters.                       *)
(***************************************************************************)
LowerChar(c) ==
    CASE c = "A" -> "a"
      [] c = "B" -> "b"
      [] OTHER -> c

\* str.lower()
Lower(s) == [k \in 1..Len(s) |-> LowerChar(s[k])]

\* str.strip()
RECURSIVE Strip(_)
Strip(s) ==
    IF s = <<>> THEN s
    ELSE IF Head(s) = " " THEN Strip(Tail(s))
    ELSE IF s[Len(s)] = " " THEN Strip(SubSeq(s, 1, Len(s) - 1))
    ELSE s

\* the operator `sub in s` on strings
IsSubstring(sub, s) ==
    \E k \in 0..(Len(s) - Len(sub)) : SubSeq(s, k + 1, k + Len(sub)) = sub

\* set(s)
CharSet(s) == {s[k] : k \in 1..Len(s)}

(***************************************************************************)
(* _levenshtein_distance: the two-row algorithm.                           *)
(***************************************************************************)
\* the inner loop over s2: extends current_row by one entry per character
RECURSIVE LevInnerLoopAlwaysSubstitute(_, _, _, _)
LevInnerLoopAlwaysSubstitute(previous_row, current_row, c1, s2) ==
    LET j == Len(current_row)
    IN  IF j > Len(s2)
        THEN current_row
        ELSE LET insertions == previous_row[j + 1] + 1
                 deletions == current_row[j] + 1
                 substitutions == previous_row[j] + 1
             IN  LevInnerLoopAlwaysSubstitute(previous_row,
                              Append(current_row, Min3(insertions, deletions, substitutions)),
                              c1, s2)

RECURSIVE LevInnerLoop(_, _, _, _)
LevInnerLoop(previous_row, current_row, c1, s2) ==
    LET j == Len(current_row)      \* 1-based index of the next c2
    IN  IF j > Len(s2)
        THEN current_row
        ELSE LET insertions == previous_row[j + 1] + 1
                 deletions == current_row[j] + 1
                 substitutions == previous_row[j] + (IF c1 # s2[j] THEN 1 ELSE 0)
             IN  LevInnerLoop(previous_row,
                              Append(current_row, Min3(insertions, deletions, substitutions)),
                              c1, s2)

\* the outer loop over s1, i is the 0-based index of c1
RECURSIVE LevOuterLoop(_, _, _, _)
LevOuterLoop(previous_row, s1, s2, i) ==
    IF i >= Len(s1)
    THEN previous_row
    ELSE LevOuterLoop(LevInnerLoop(previous_row, <<i + 1>>, s1[i + 1], s2), s1, s2, i + 1)

RECURSIVE LevenshteinDistance(_, _)
LevenshteinDistance(s1, s2) ==
    IF Len(s1) < Len(s2)
    THEN LevenshteinDistance(s2, s1)
    ELSE IF Len(s2) = 0
    THEN Len(s1)
    ELSE LET last_row == LevOuterLoop([k \in 1..(Len(s2) + 1) |-> k - 1], s1, s2, 0)
         IN  last_row[Len(last_row)]

(***************************************************************************)
(* _calculate_phoneme_similarity.                                          *)
(***************************************************************************)
\* recognized.replace(" ", "").lower()
FoldNoLower(s) == RemoveSpaces(s)

Fold(s) == Lower(RemoveSpaces(s))

Jaccard(r, t) ==
    LET intersection == CharSet(r) \cap CharSet(t)
        union == CharSet(r) \cup CharSet(t)
    IN  IF Cardinality(union) > 0
        THEN Rat(Cardinality(intersection), Cardinality(union))
        ELSE RInt(0)

LevenshteinSimilarity(r, t) ==
    LET edit_distance == LevenshteinDistance(r, t)
        max_len == Max2(Len(r), Len(t))
    IN  IF max_len > 0
        THEN RSub(RInt(1), Rat(edit_distance, max_len))
        ELSE RInt(0)

LenRatioInverted(r, t) ==
    IF Min2(Len(r), Len(t)) > 0
    THEN Rat(Max2(Len(r), Len(t)), Min2(Len(r), Len(t)))
    ELSE RInt(0)

LenRatio(r, t) ==
    IF Max2(Len(r), Len(t)) > 0
    THEN Rat(Min2(Len(r), Len(t)), Max2(Len(r), Len(t)))
    ELSE RInt(0)

\* the weighted combination, clamped to [0, 1]
WeightedSimilarity(r, t) ==
    LET sim == RAdd(RAdd(RMul(Jaccard(r, t), Rat(3, 10)),
                         RMul(LevenshteinSimilarity(r, t), Rat(5, 10))),
                    RMul(LenRatio(r, t), Rat(2, 10)))
    IN  RMax(RInt(0), RMin(RInt(1), sim))

CalculatePhonemeSimilarity(recognized_arg, target_arg) ==
    LET r == Fold(recognized_arg)
        t == Fold(target_arg)
    IN  IF r = t THEN RInt(1)
        ELSE IF IsSubstring(t, r) THEN Rat(95, 100)
        ELSE IF IsSubstring(r, t) THEN Rat(90, 100)
        ELSE WeightedSimilarity(r, t)

(***************************************************************************)
(* score_pronunciation: the score calculation.                             *)
(***************************************************************************)
\* is_perfect_match or is_near_perfect
IsLenientFromNinety(utext, tclean, pmatch) ==
    \/ utext = tclean
    \/ RLe(Rat(90, 100), pmatch)

IsLenient(utext, tclean, pmatch) ==
    \/ utext = tclean
    \/ RLe(Rat(95, 100), pmatch)

LenientDtwScoreLowFloor(d) ==
    IF RLt(d, RInt(4)) THEN RInt(95)
    ELSE IF RLt(d, RInt(6)) THEN RInt(88)
    ELSE IF RLt(d, RInt(8)) THEN RInt(80)
    ELSE RInt(70)

LenientDtwScore(d) ==
    IF RLt(d, RInt(4)) THEN RInt(95)
    ELSE IF RLt(d, RInt(6)) THEN RInt(88)
    ELSE IF RLt(d, RInt(8)) THEN RInt(80)
    ELSE RInt(72)

StrictDtwScoreNoFloor(d) ==
    IF RLt(d, RInt(3)) THEN RInt(100)
    ELSE IF RLt(d, Rat(55, 10))
    THEN RSub(RInt(100), RMul(RSub(d, RInt(3)), RInt(10)))
    ELSE IF RLt(d, RInt(8))
    THEN RSub(RInt(75), RMul(RSub(d, Rat(55, 10)), RInt(12)))
    ELSE RSub(RInt(45), RMul(RSub(d, RInt(8)), RInt(3)))

StrictDtwScore(d) ==
    IF RLt(d, RInt(3)) THEN RInt(100)
    ELSE IF RLt(d, Rat(55, 10))
    THEN RSub(RInt(100), RMul(RSub(d, RInt(3)), RInt(10)))
    ELSE IF RLt(d, RInt(8))
    THEN RSub(RInt(75), RMul(RSub(d, Rat(55, 10)), RInt(12)))
    ELSE RMax(RInt(40), RSub(RInt(45), RMul(RSub(d, RInt(8)), RInt(3))))

\* max(0, min(100, x))
ClampScore(x) == RMax(RInt(0), RMin(RInt(100), x))

PhonemeScoreTimesThousand(pmatch) == RMul(pmatch, RInt(1000))

PhonemeScore(pmatch) == RMul(pmatch, RInt(100))

\* the dynamic weighting, clamped
OverallScoreFromEighty(pmatch, dscore, pscore) ==
    IF RLe(Rat(8, 10), pmatch)
    THEN ClampScore(RAdd(RMul(dscore, Rat(4, 10)), RMul(pscore, Rat(6, 10))))
    ELSE ClampScore(RAdd(RMul(dscore, Rat(5, 10)), RMul(pscore, Rat(5, 10))))

OverallScore(pmatch, dscore, pscore) ==
    IF RLt(Rat(8, 10), pmatch)
    THEN ClampScore(RAdd(RMul(dscore, Rat(4, 10)), RMul(pscore, Rat(6, 10))))
    ELSE ClampScore(RAdd(RMul(dscore, Rat(5, 10)), RMul(pscore, Rat(5, 10))))

(***************************************************************************)
(* _generate_feedback: the list feedback_parts; every part is a tuple.     *)
(***************************************************************************)
OverallAssessmentAboveOnly(overall) ==
    IF RLt(RInt(90), overall) THEN <<"Excellent pronunciation!">>
    ELSE IF RLt(RInt(80), overall) THEN <<"Very good pronunciation!">>
    ELSE IF RLt(RInt(70), overall) THEN <<"Good pronunciation!">>
    ELSE IF RLt(RInt(60), overall) THEN <<"Decent - keep practicing!">>
    ELSE IF RLt(RInt(50), overall) THEN <<"Fair - room for improvement.">>
    ELSE <<"Keep practicing!">>

OverallAssessment(overall) ==
    IF RLe(RInt(90), overall) THEN <<"Excellent pronunciation!">>
    ELSE IF RLe(RInt(80), overall) THEN <<"Very good pronunciation!">>
    ELSE IF RLe(RInt(70), overall) THEN <<"Good pronunciation!">>
    ELSE IF RLe(RInt(60), overall) THEN <<"Decent - keep practicing!">>
    ELSE IF RLe(RInt(50), overall) THEN <<"Fair - room for improvement.">>
    ELSE <<"Keep practicing!">>

RecognitionFeedbackBelowSeventy(phoneme, recognized_arg, target_arg) ==
    IF RemoveSpaces(recognized_arg) # RemoveSpaces(target_arg) /\ RLt(phoneme, RInt(70))
    THEN IF recognized_arg # <<>>
         THEN << <<"Heard:", recognized_arg, "expected:", target_arg>> >>
         ELSE << <<"Try speaking more clearly.">> >>
    ELSE <<>>

RecognitionFeedback(phoneme, recognized_arg, target_arg) ==
    IF RemoveSpaces(recognized_arg) # RemoveSpaces(target_arg) /\ RLt(phoneme, RInt(80))
    THEN IF recognized_arg # <<>>
         THEN << <<"Heard:", recognized_arg, "expected:", target_arg>> >>
         ELSE << <<"Try speaking more clearly.">> >>
    ELSE <<>>

SpecificGuidanceTimingFirst(dtw, phoneme) ==
    IF RLt(dtw, RInt(70))
    THEN << <<"Work on timing and rhythm.">> >>
    ELSE IF RLt(dtw, RInt(70)) /\ RLt(phoneme, RInt(70))
    THEN << <<"Focus on clarity and rhythm.">> >>
    ELSE IF RLt(phoneme, RInt(70))
    THEN << <<"Focus on pronouncing each sound.">> >>
    ELSE <<>>

SpecificGuidance(dtw, phoneme) ==
    IF RLt(dtw, RInt(70)) /\ RLt(phoneme, RInt(70))
    THEN << <<"Focus on clarity and rhythm.">> >>
    ELSE IF RLt(dtw, RInt(70))
    THEN << <<"Work on timing and rhythm.">> >>
    ELSE IF RLt(phoneme, RInt(70))
    THEN << <<"Focus on pronouncing each sound.">> >>
    ELSE <<>>

PaceFeedback(distance) ==
    IF RLt(RInt(6), distance)
    THEN << <<"Try speaking at a natural pace.">> >>
    ELSE <<>>

GenerateFeedback(overall, dtw, phoneme, recognized_arg, target_arg, distance) ==
    <<OverallAssessment(overall)>>
        \o RecognitionFeedback(phoneme, recognized_arg, target_arg)
        \o SpecificGuidance(dtw, phoneme)
        \o PaceFeedback(distance)

(***************************************************************************)
(* Specification of the phoneme aligner: the inputs are drawn in Init and  *)
(* the call is one step.                                                   *)
(***************************************************************************)
IpaAlphabet == {"a", "b", " "}

IpaExamples == {<<"k", "ae", "t">>, <<"b", "ae", "t">>}

IpaStrings == StringsUpTo(IpaAlphabet, MaxIpaLen) \cup IpaExamples

AlignIdle ==
    /\ user_ipa = <<>>
    /\ target_ipa = <<>>
    /\ dp_dist = 0
    /\ mismatches = <<>>

SimIdle ==
    /\ recognized = <<>>
    /\ target = <<>>
    /\ similarity = RInt(0)

ScoreOutputsIdle ==
    /\ target_word_clean = <<>>
    /\ phoneme_match = RInt(0)
    /\ lenient = FALSE
    /\ dtw_score = RInt(0)
    /\ phoneme_score = RInt(0)
    /\ overall_score = RInt(0)
    /\ feedback = <<>>

ScoreIdle ==
    /\ user_text = <<>>
    /\ target_word = <<>>
    /\ dtw_distance = RInt(0)
    /\ ScoreOutputsIdle

PipeIdle ==
    /\ dtw_lib = <<>>
    /\ calls = 0
    /\ ext = NoneObj
    /\ prev_result = NoneObj
    /\ result = NoneObj

ScorerIdle ==
    /\ PRONUNCIATION_SCORER = NoneObj
    /\ model_loads = 0
    /\ target_lang = None
    /\ scorer_arg = NoneObj
    /\ requests = 0
    /\ reply = NoneObj

DtwIdle ==
    /\ mfcc_user = <<>>
    /\ mfcc_ref = <<>>
    /\ dtw_out = NoneObj

ServiceIdle == PipeIdle /\ ScorerIdle /\ DtwIdle

LevIdle ==
    /\ lev_s1 = <<>>
    /\ lev_s2 = <<>>
    /\ lev_distance = 0

FeedbackIdle ==
    /\ fb_args = NoneObj
    /\ fb_parts = <<>>

FusionIdle ==
    /\ fu_distance = RInt(0)
    /\ fu_sim_lo = RInt(0)
    /\ fu_sim_hi = RInt(0)
    /\ fu_lo = NoneObj
    /\ fu_hi = NoneObj

StreamIdle ==
    /\ wav = <<>>
    /\ chunk = 0
    /\ overlap = 0
    /\ pos = 0
    /\ seq = 0
    /\ yielded = <<>>

SessionIdle ==
    /\ user_data = NoneObj
    /\ routed = None
    /\ last_update = None
    /\ updates = 0

AppIdle == LevIdle /\ FeedbackIdle /\ FusionIdle /\ StreamIdle /\ SessionIdle

InitAlign ==
    /\ AppIdle
    /\ pc = "fpm_call"
    /\ user_ipa \in IpaStrings
    /\ target_ipa \in IpaStrings
    /\ dp_dist = 0
    /\ mismatches = <<>>
    /\ SimIdle
    /\ ScoreIdle
    /\ ServiceIdle

CallFindPhonemeMismatches ==
    /\ pc = "fpm_call"
    /\ LET r == FindPhonemeMismatches(user_ipa, target_ipa)
       IN  /\ dp_dist' = r.dist
           /\ mismatches' = r.list
    /\ pc' = "fpm_done"
    /\ UNCHANGED <<appVars, user_ipa, target_ipa, simVars, scoreVars, serviceVars>>

NextAlign == CallFindPhonemeMismatches

SpecAlign == InitAlign /\ [][NextAlign]_vars

(***************************************************************************)
(* Specification of the word-similarity scorer as a function of arbitrary  *)
(* texts (any letter case, any spacing).                                   *)
(***************************************************************************)
TextAlphabet == {"a", "b", "A", " "}

TextExamples == {
    <<"r", "u", "n">>,
    <<"r", "u", "n", "n", "i", "n", "g">>,
    <<"x", "y", "z">>,
    <<"h", "e", "l", "l", "o">>,
    <<"a", "b", "c", "d">>,
    <<"a", "b", "e", "c", "d">>}

RawTexts == StringsUpTo(TextAlphabet, MaxTextLen) \cup TextExamples

InitSim ==
    /\ AppIdle
    /\ pc = "cps_call"
    /\ recognized \in RawTexts
    /\ target \in RawTexts
    /\ similarity = RInt(0)
    /\ AlignIdle
    /\ ScoreIdle
    /\ ServiceIdle

CallCalculatePhonemeSimilarity ==
    /\ pc = "cps_call"
    /\ similarity' = CalculatePhonemeSimilarity(recognized, target)
    /\ pc' = "cps_done"
    /\ UNCHANGED <<appVars, recognized, target, alignVars, scoreVars, serviceVars>>

NextSim == CallCalculatePhonemeSimilarity

SpecSim == InitSim /\ [][NextSim]_vars

(***************************************************************************)
(* Specification of score_pronunciation from the point where the external  *)
(* stages have delivered the recognized text and the DTW distance.         *)
(***************************************************************************)
\* recognize_phonemes returns transcription.lower().strip()
RecognizerTexts == {Strip(Lower(x)) : x \in RawTexts}

DtwDistances == {Rat(k, DistDen) : k \in 0..MaxDistSteps}

InitScore ==
    /\ AppIdle
    /\ pc = "sp_call"
    /\ user_text \in RecognizerTexts
    /\ target_word \in RawTexts
    /\ dtw_distance \in DtwDistances
    /\ ScoreOutputsIdle
    /\ AlignIdle
    /\ SimIdle
    /\ ServiceIdle

CallScorePronunciation ==
    /\ pc = "sp_call"
    /\ LET tclean == Strip(Lower(target_word))
           pmatch == CalculatePhonemeSimilarity(user_text, tclean)
           is_lenient == IsLenient(user_text, tclean, pmatch)
           dscore == ClampScore(IF is_lenient
                                THEN LenientDtwScore(dtw_distance)
                                ELSE StrictDtwScore(dtw_distance))
           pscore == PhonemeScore(pmatch)
           overall == OverallScore(pmatch, dscore, pscore)
       IN  /\ target_word_clean' = tclean
           /\ phoneme_match' = pmatch
           /\ lenient' = is_lenient
           /\ dtw_score' = dscore
           /\ phoneme_score' = pscore
           /\ overall_score' = overall
           /\ feedback' = GenerateFeedback(overall, dscore, pscore,
                                           user_text, tclean, dtw_distance)
    /\ pc' = "sp_done"
    /\ UNCHANGED <<appVars, scoreInputs, alignVars, simVars, serviceVars>>

NextScore == CallScorePronunciation

SpecScore == InitScore /\ [][NextScore]_vars

(***************************************************************************)
(* Claims about the phoneme aligner (checked under SpecAlign).             *)
(***************************************************************************)
UserPhones == RemoveSpaces(user_ipa)

TargetPhones == RemoveSpaces(target_ipa)

\* C1: for every pair of phoneme strings, empty ones included, the number of
\* mismatches returned by _find_phoneme_mismatches equals the edit distance
\* dp[m][n] of its own DP table.
C1_MismatchCountIsEditDistance ==
    pc = "fpm_done" => Len(mismatches) = dp_dist

\* C1 witness: an empty actual string against three target phonemes gives
\* three mismatches.
C1_Witness ==
    /\ pc = "fpm_done"
    /\ UserPhones = <<>>
    /\ Len(TargetPhones) = 3
    /\ dp_dist = 3
    /\ Len(mismatches) = 3

\* indices (counted from 1) at which two sequences of equal length differ
DiffIndices(u, t) == {k \in 1..Len(u) : u[k] # t[k]}

OneSubstitutionCase ==
    /\ pc = "fpm_done"
    /\ Len(UserPhones) = Len(TargetPhones)
    /\ Cardinality(DiffIndices(UserPhones, TargetPhones)) = 1

\* C9 as stated: target and actual of equal length differing at exactly one
\* index p counted from 0 give exactly one mismatch, a substitution carrying
\* position p, expected = target[p] and actual = actual[p].
C9_Original ==
    OneSubstitutionCase =>
        LET q == CHOOSE k \in DiffIndices(UserPhones, TargetPhones) : TRUE
        IN  mismatches = <<[position |-> q - 1,
                            expected |-> TargetPhones[q],
                            actual |-> UserPhones[q],
                            type |-> "substitution"]>>

\* C9 amended: target and actual of equal length differing at exactly one
\* index p counted from 0 give exactly one mismatch, a substitution carrying
\* position p + 1 (positions are counted from 1), expected = target[p] and
\* actual = actual[p].
C9_OneSubstitutionOneBased ==
    OneSubstitutionCase =>
        LET q == CHOOSE k \in DiffIndices(UserPhones, TargetPhones) : TRUE
        IN  mismatches = <<[position |-> q,
                            expected |-> TargetPhones[q],
                            actual |-> UserPhones[q],
                            type |-> "substitution"]>>

\* C9 witness: target k,ae,t against actual b,ae,t.
C9_Witness ==
    /\ pc = "fpm_done"
    /\ target_ipa = <<"k", "ae", "t">>
    /\ user_ipa = <<"b", "ae", "t">>
    /\ mismatches = <<[position |-> 1, expected |-> "k", actual |-> "b",
                       type |-> "substitution"]>>

\* C10 as stated: every mismatch, an insertion included, carries a position
\* relative to the target sequence, and the positions of consecutive list
\* entries are non-decreasing.
C10_Original ==
    pc = "fpm_done" =>
        /\ \A k \in 1..Len(mismatches) :
              mismatches[k].position \in 0..Len(TargetPhones)
        /\ \A k \in 1..(Len(mismatches) - 1) :
              mismatches[k].position <= mismatches[k + 1].position

SubstitutionsAndOmissions == SelectSeq(mismatches, LAMBDA x : x.type # "insertion")

Insertions == SelectSeq(mismatches, LAMBDA x : x.type = "insertion")

NonDecreasingPositions(list) ==
    \A k \in 1..(Len(list) - 1) : list[k].position <= list[k + 1].position

\* C10 amended: a Substitution or Omission carries the position (counted from
\* 1) of its expected symbol in the target sequence, an Insertion carries the
\* position (counted from 1) of its actual symbol in the actual sequence; the
\* positions of the Substitution/Omission entries are non-decreasing in list
\* order, and so are the positions of the Insertion entries.
C10_OrderedPerSequence ==
    pc = "fpm_done" =>
        /\ \A k \in 1..Len(mismatches) :
              LET x == mismatches[k]
              IN  IF x.type = "insertion"
                  THEN /\ x.position \in 1..Len(UserPhones)
                       /\ x.actual = UserPhones[x.position]
                       /\ x.expected = None
                  ELSE /\ x.position \in 1..Len(TargetPhones)
                       /\ x.expected = TargetPhones[x.position]
        /\ NonDecreasingPositions(SubstitutionsAndOmissions)
        /\ NonDecreasingPositions(Insertions)

\* C10 witness: actual a,a,a against target b returns two insertions at
\* actual positions 1 and 2 followed by a substitution at target position 1.
C10_Witness ==
    /\ pc = "fpm_done"
    /\ Len(mismatches) = 3
    /\ mismatches[1].type = "insertion" /\ mismatches[1].position = 1
    /\ mismatches[2].type = "insertion" /\ mismatches[2].position = 2
    /\ mismatches[3].type = "substitution" /\ mismatches[3].position = 1

(***************************************************************************)
(* Claims about the word-similarity scorer (checked under SpecSim).        *)
(***************************************************************************)
FoldedRecognized == Lower(RemoveSpaces(recognized))

FoldedTarget == Lower(RemoveSpaces(target))

NoRuleApplies ==
    /\ FoldedRecognized # FoldedTarget
    /\ ~IsSubstring(FoldedTarget, FoldedRecognized)
    /\ ~IsSubstring(FoldedRecognized, FoldedTarget)

Run == <<"r", "u", "n">>

Running == <<"r", "u", "n", "n", "i", "n", "g">>

Xyz == <<"x", "y", "z">>

\* C6: on the case-folded, space-free inputs the rules apply in order and
\* the first match wins: equal -> 1.0; else target a substring of recognized
\* -> 0.95; else recognized a substring of target -> 0.90.  The result is
\* the one of the folded inputs, so letter case and spacing never change it;
\* similarity(run, run) = 1.0 and similarity(running, run) >= 0.9.
C6_OrderedRules ==
    pc = "cps_done" =>
        /\ FoldedRecognized = FoldedTarget => similarity = RInt(1)
        /\ (FoldedRecognized # FoldedTarget
              /\ IsSubstring(FoldedTarget, FoldedRecognized))
              => similarity = Rat(95, 100)
        /\ (FoldedRecognized # FoldedTarget
              /\ ~IsSubstring(FoldedTarget, FoldedRecognized)
              /\ IsSubstring(FoldedRecognized, FoldedTarget))
              => similarity = Rat(90, 100)
        /\ similarity = CalculatePhonemeSimilarity(FoldedRecognized, FoldedTarget)
        /\ (recognized = Run /\ target = Run) => similarity = RInt(1)
        /\ (recognized = Running /\ target = Run) => RLe(Rat(9, 10), similarity)

\* C6 witness: "Ab" against "a " differs from it in case and spacing and
\* falls under the second rule.
C6_Witness ==
    /\ pc = "cps_done"
    /\ recognized = <<"A", "b">>
    /\ target = <<"a", " ">>
    /\ similarity = Rat(95, 100)

\* the edit distance of two sequences, read off the full DP table
EditDistance(a, b) == DpAt(DpTable(a, b), Len(a), Len(b))

\* the blend of the claim, for two non-empty folded strings
ClaimedBlend(r, t) ==
    LET inter == Cardinality(CharSet(r) \cap CharSet(t))
        union == Cardinality(CharSet(r) \cup CharSet(t))
        maxlen == Max2(Len(r), Len(t))
        minlen == Min2(Len(r), Len(t))
    IN  RAdd(RAdd(RMul(Rat(3, 10), Rat(inter, union)),
                  RMul(Rat(5, 10), RSub(RInt(1), Rat(EditDistance(r, t), maxlen)))),
             RMul(Rat(2, 10), Rat(minlen, maxlen)))

\* C7: when none of the equality/substring rules applies the similarity is
\* 0.3*Jaccard + 0.5*(1 - levenshtein/max(len)) + 0.2*(min(len)/max(len));
\* the returned value is always within [0, 1]; similarity(xyz, run) < 0.5.
C7_WeightedBlend ==
    pc = "cps_done" =>
        /\ NoRuleApplies => similarity = ClaimedBlend(FoldedRecognized, FoldedTarget)
        /\ RLe(RInt(0), similarity) /\ RLe(similarity, RInt(1))
        /\ (recognized = Xyz /\ target = Run) => RLt(similarity, Rat(5, 10))

\* C7 witness: xyz against run shares no letter, is three edits away and has
\* the same length, so the blend is 0.2.
C7_Witness ==
    /\ pc = "cps_done"
    /\ recognized = Xyz
    /\ target = Run
    /\ NoRuleApplies
    /\ similarity = Rat(2, 10)

\* C8: when exactly one of the two folded strings is empty the similarity is
\* the blend with every undefined term contributing 0, that is 0.0, and not
\* one of the substring-rule values 0.95 or 0.90.
C8_EmptyStringGivesZero ==
    (pc = "cps_done" /\ (FoldedRecognized = <<>>) # (FoldedTarget = <<>>))
        => similarity = RInt(0)

(***************************************************************************)
(* Claims about the score calculation (checked under SpecScore).           *)
(***************************************************************************)
Hello == <<"h", "e", "l", "l", "o">>

NearPerfect == RLe(Rat(95, 100), phoneme_match)

\* C2: the lenient dtw_score mapping is applied exactly when the similarity
\* is >= 0.95 (the test "recognized text equals target word" never selects
\* it below 0.95), and it gives 95 for distance < 4.0, 88 for
\* 4.0 <= distance < 6.0, 80 for 6.0 <= distance < 8.0 and 72 from 8.0 on.
C2_LenientMapping ==
    pc = "sp_done" =>
        /\ lenient <=> NearPerfect
        /\ user_text = target_word_clean => NearPerfect
        /\ lenient =>
              dtw_score = (IF RLt(dtw_distance, RInt(4)) THEN RInt(95)
                           ELSE IF RLt(dtw_distance, RInt(6)) THEN RInt(88)
                           ELSE IF RLt(dtw_distance, RInt(8)) THEN RInt(80)
                           ELSE RInt(72))

\* C2 witness: a recognized text that only contains the target word
\* (similarity 0.95) at distance 5.0 is scored 88 by the lenient mapping.
C2_Witness ==
    /\ pc = "sp_done"
    /\ user_text # target_word_clean
    /\ phoneme_match = Rat(95, 100)
    /\ lenient
    /\ dtw_distance = RInt(5)
    /\ dtw_score = RInt(88)

\* C3: below similarity 0.95 the dtw_score is 100 for d < 3.0,
\* 100 - 10*(d - 3.0) for 3.0 <= d < 5.5, 75 - 12*(d - 5.5) for
\* 5.5 <= d < 8.0 and max(40, 45 - 3*(d - 8.0)) from 8.0 on; d = 7.0 gives
\* 57.0 and the strict dtw_score never falls below 40.
C3_StrictMapping ==
    (pc = "sp_done" /\ ~NearPerfect) =>
        LET d == dtw_distance
        IN  /\ RLt(d, RInt(3)) => dtw_score = RInt(100)
            /\ (RLe(RInt(3), d) /\ RLt(d, Rat(11, 2))) =>
                  dtw_score = RSub(RInt(100), RMul(RInt(10), RSub(d, RInt(3))))
            /\ (RLe(Rat(11, 2), d) /\ RLt(d, RInt(8))) =>
                  dtw_score = RSub(RInt(75), RMul(RInt(12), RSub(d, Rat(11, 2))))
            /\ RLe(RInt(8), d) =>
                  LET linear == RSub(RInt(45), RMul(RInt(3), RSub(d, RInt(8))))
                  IN  dtw_score = (IF RLe(RInt(40), linear) THEN linear ELSE RInt(40))
            /\ d = RInt(7) => dtw_score = RInt(57)
            /\ RLe(RInt(40), dtw_score)

\* C3 witness: hello heard as xyz at distance 7.0 is scored 57 by the strict
\* mapping.
C3_Witness ==
    /\ pc = "sp_done"
    /\ user_text = Xyz
    /\ target_word = Hello
    /\ ~NearPerfect
    /\ dtw_distance = RInt(7)
    /\ dtw_score = RInt(57)

\* C4: phoneme_score = 100 * similarity; the overall score is
\* 0.4*dtw_score + 0.6*phoneme_score when the similarity is > 0.8 and
\* 0.5*dtw_score + 0.5*phoneme_score otherwise, a similarity of exactly 0.8
\* included; an exactly recognized word at distance 2.0 gives 95, 100, 98.0.
C4_OverallWeighting ==
    pc = "sp_done" =>
        /\ phoneme_score = RMul(RInt(100), phoneme_match)
        /\ RLt(Rat(4, 5), phoneme_match) =>
              overall_score = RAdd(RMul(Rat(2, 5), dtw_score), RMul(Rat(3, 5), phoneme_score))
        /\ RLe(phoneme_match, Rat(4, 5)) =>
              overall_score = RAdd(RMul(Rat(1, 2), dtw_score), RMul(Rat(1, 2), phoneme_score))
        /\ (user_text = target_word_clean /\ dtw_distance = RInt(2)) =>
              /\ dtw_score = RInt(95)
              /\ phoneme_score = RInt(100)
              /\ overall_score = RInt(98)

\* C4 witness: hello recognized exactly at distance 2.0.
C4_Witness ==
    /\ pc = "sp_done"
    /\ user_text = Hello
    /\ target_word = Hello
    /\ dtw_distance = RInt(2)
    /\ dtw_score = RInt(95)
    /\ phoneme_score = RInt(100)
    /\ overall_score = RInt(98)

InScoreRange(x) == RLe(RInt(0), x) /\ RLe(x, RInt(100))

\* C5: for every distance >= 0 and every similarity the scorer produces,
\* dtw_score, phoneme_score and overall_score are each within [0, 100].
C5_ScoresInRange ==
    pc = "sp_done" =>
        /\ InScoreRange(dtw_score)
        /\ InScoreRange(phoneme_score)
        /\ InScoreRange(overall_score)

\* C5 witness: the largest modelled distance on the strict branch, where the
\* linear penalty 45 - 3*(d - 8.0) is below the floor of 40.
C5_Witness ==
    /\ pc = "sp_done"
    /\ ~lenient
    /\ RLt(RInt(10), dtw_distance)
    /\ dtw_score = RInt(40)
    /\ RLt(phoneme_score, RInt(50))
    /\ InScoreRange(overall_score)

(***************************************************************************)
(* Claims about the backtrace priority (checked under SpecAlign).          *)
(***************************************************************************)
\* the minimal-cost predecessors of cell (i, j) of the table
MatchIsMinimal(dp, u, t, i, j) ==
    i > 0 /\ j > 0 /\ u[i] = t[j] /\ DpAt(dp, i, j) = DpAt(dp, i - 1, j - 1)

SubstitutionIsMinimal(dp, u, t, i, j) ==
    i > 0 /\ j > 0 /\ u[i] # t[j] /\ DpAt(dp, i, j) = DpAt(dp, i - 1, j - 1) + 1

OmissionIsMinimal(dp, u, t, i, j) ==
    j > 0 /\ DpAt(dp, i, j) = DpAt(dp, i, j - 1) + 1

InsertionIsMinimal(dp, u, t, i, j) ==
    i > 0 /\ DpAt(dp, i, j) = DpAt(dp, i - 1, j) + 1

\* the reference backtrace: among the minimal-cost predecessors it takes a
\* match, else a substitution, else an omission, else an insertion
RECURSIVE ReferenceBacktrace(_, _, _, _, _, _)
ReferenceBacktrace(dp, u, t, i, j, acc) ==
    IF i = 0 /\ j = 0
    THEN acc
    ELSE IF MatchIsMinimal(dp, u, t, i, j)
    THEN ReferenceBacktrace(dp, u, t, i - 1, j - 1, acc)
    ELSE IF SubstitutionIsMinimal(dp, u, t, i, j)
    THEN ReferenceBacktrace(dp, u, t, i - 1, j - 1,
             Append(acc, [position |-> j, expected |-> t[j], actual |-> u[i],
                          type |-> "substitution"]))
    ELSE IF OmissionIsMinimal(dp, u, t, i, j)
    THEN ReferenceBacktrace(dp, u, t, i, j - 1,
             Append(acc, [position |-> j, expected |-> t[j], actual |-> None,
                          type |-> "omission"]))
    ELSE IF InsertionIsMinimal(dp, u, t, i, j)
    THEN ReferenceBacktrace(dp, u, t, i - 1, j,
             Append(acc, [position |-> i, expected |-> None, actual |-> u[i],
                          type |-> "insertion"]))
    ELSE Append(acc, [position |-> 0, expected |-> None, actual |-> None,
                      type |-> "no minimal predecessor"])

ReferenceMismatches ==
    LET dp == DpTable(UserPhones, TargetPhones)
        acc == ReferenceBacktrace(dp, UserPhones, TargetPhones,
                                  Len(UserPhones), Len(TargetPhones), <<>>)
    IN  [k \in 1..Len(acc) |-> acc[Len(acc) + 1 - k]]

\* C11: the returned mismatch list equals, for all inputs, the one of the
\* reference backtrace from dp[m][n] to dp[0][0] that among several
\* minimal-cost predecessors takes a match step first, otherwise a
\* substitution, otherwise an insertion into the target (an omission),
\* otherwise a deletion from the actual sequence (an insertion); positions
\* are recorded as the aligner records them (see C9 and C10).
C11_BacktracePriority ==
    pc = "fpm_done" => mismatches = ReferenceMismatches

\* C11 witness: actual a,b against target b,a, where at cell (2, 2) a
\* substitution, an omission and an insertion are all minimal and the
\* aligner reports two substitutions.
C11_Witness ==
    /\ pc = "fpm_done"
    /\ user_ipa = <<"a", "b">>
    /\ target_ipa = <<"b", "a">>
    /\ LET dp == DpTable(UserPhones, TargetPhones)
       IN  /\ SubstitutionIsMinimal(dp, UserPhones, TargetPhones, 2, 2)
           /\ OmissionIsMinimal(dp, UserPhones, TargetPhones, 2, 2)
           /\ InsertionIsMinimal(dp, UserPhones, TargetPhones, 2, 2)
    /\ mismatches = <<[position |-> 1, expected |-> "b", actual |-> "a",
                       type |-> "substitution"],
                      [position |-> 2, expected |-> "a", actual |-> "b",
                       type |-> "substitution"]>>

(***************************************************************************)
(* score_pronunciation: the stages around the score calculation.  A raised *)
(* exception is the record [kind |-> "raised", stage |-> s].               *)
(***************************************************************************)
Raise(s) == [kind |-> "raised", stage |-> s]

IsRaised(x) == x.kind = "raised"

\* round(x, ndigits) on an exact rational: nearest multiple of 10^-ndigits,
\* a tie goes to the even multiple
RECURSIVE PowerOfTen(_)
PowerOfTen(k) == IF k = 0 THEN 1 ELSE 10 * PowerOfTen(k - 1)

Round(x, ndigits) ==
    LET scale == PowerOfTen(ndigits)
        num == x.n * scale
        q == num \div x.d
        rem == num - q * x.d
        up == \/ 2 * rem > x.d
              \/ 2 * rem = x.d /\ q % 2 = 1
    IN  Rat(IF up THEN q + 1 ELSE q, scale)

\* the stages that call an external library outside any try block
Stages == {"load_audio", "extract_mfcc", "compute_dtw_distance",
           "recognize_phonemes"}

\* e is what the external world does during one call: the stage whose
\* library raises (or "none"), the noise np.random.normal draws for the two
\* signals, and what running espeak-ng gives
LoadAudioStage(e) ==
    IF e.failed = "load_audio" THEN Raise("load_audio")
    ELSE [kind |-> "audio"]

\* audio + np.random.normal(...): the features are those of the noisy signal
ExtractMfccStage(e) ==
    IF e.failed = "extract_mfcc" THEN Raise("extract_mfcc")
    ELSE [kind |-> "mfcc", noise |-> e.noise]

DtwStageZeroOnFailure(lib, e, mfcc) ==
    IF e.failed = "compute_dtw_distance"
    THEN [kind |-> "distance", value |-> RInt(0)]
    ELSE [kind |-> "distance", value |-> lib[mfcc.noise]]

DtwStage(lib, e, mfcc) ==
    IF e.failed = "compute_dtw_distance" THEN Raise("compute_dtw_distance")
    ELSE [kind |-> "distance", value |-> lib[mfcc.noise]]

\* recognize_phonemes is given the audio without the noise
RecognitionStage(e, utext) ==
    IF e.failed = "recognize_phonemes" THEN Raise("recognize_phonemes")
    ELSE [kind |-> "recognition", text |-> utext]

AnalyzePhonemeDifferencesEmptyOnError(e) ==
    IF e.espeak.outcome = "ok"
    THEN [kind |-> "PhonemeAnalysis",
          user_ipa |-> e.espeak.user_phonemes,
          target_ipa |-> e.espeak.target_phonemes,
          mismatches |-> FindPhonemeMismatches(e.espeak.user_phonemes,
                                               e.espeak.target_phonemes).list]
    ELSE [kind |-> "PhonemeAnalysis", user_ipa |-> <<>>, target_ipa |-> <<>>,
          mismatches |-> <<>>]

\* _analyze_phoneme_differences: None when the binary is missing and in both
\* except clauses, else the dict (its "feedback" text is a rendering of the
\* mismatches and is left out)
AnalyzePhonemeDifferences(e) ==
    IF e.espeak.outcome = "ok"
    THEN [kind |-> "PhonemeAnalysis",
          user_ipa |-> e.espeak.user_phonemes,
          target_ipa |-> e.espeak.target_phonemes,
          mismatches |-> FindPhonemeMismatches(e.espeak.user_phonemes,
                                               e.espeak.target_phonemes).list]
    ELSE NoneObj

\* phoneme_analysis = None; try: ... except Exception: (keeps None)
PhonemeAnalysisStage(e) ==
    LET analysis == AnalyzePhonemeDifferences(e)
    IN  IF IsRaised(analysis) THEN NoneObj ELSE analysis

\* the locals of the score calculation and of _generate_feedback
ScoreLocals(utext, tword, d) ==
    LET tclean == Strip(Lower(tword))
        pmatch == CalculatePhonemeSimilarity(utext, tclean)
        is_lenient == IsLenient(utext, tclean, pmatch)
        dscore == ClampScore(IF is_lenient THEN LenientDtwScore(d)
                             ELSE StrictDtwScore(d))
        pscore == PhonemeScore(pmatch)
        overall == OverallScore(pmatch, dscore, pscore)
    IN  [target_word_clean |-> tclean, phoneme_match |-> pmatch,
         lenient |-> is_lenient, dtw_score |-> dscore,
         phoneme_score |-> pscore, overall_score |-> overall,
         feedback |-> GenerateFeedback(overall, dscore, pscore, utext, tclean, d)]

\* the returned dict without reference_text, alignment_quality, metrics and
\* debug_info
ScoreResult(utext, loc, d, analysis) ==
    [kind |-> "ScoreResult",
     overall_score |-> Round(loc.overall_score, 1),
     dtw_score |-> Round(loc.dtw_score, 1),
     phoneme_score |-> Round(loc.phoneme_score, 1),
     recognized_text |-> utext,
     target_word |-> loc.target_word_clean,
     dtw_distance |-> Round(d, 3),
     feedback |-> loc.feedback,
     phoneme_analysis |-> analysis]

\* score_pronunciation: the first exception of a stage leaves the function
ScorePronunciation(lib, e, utext, tword) ==
    LET audio == LoadAudioStage(e)
        mfcc == IF IsRaised(audio) THEN audio ELSE ExtractMfccStage(e)
        dist == IF IsRaised(mfcc) THEN mfcc ELSE DtwStage(lib, e, mfcc)
        text == IF IsRaised(dist) THEN dist ELSE RecognitionStage(e, utext)
    IN  IF IsRaised(text) THEN text
        ELSE ScoreResult(text.text,
                         ScoreLocals(text.text, tword, dist.value),
                         dist.value,
                         PhonemeAnalysisStage(e))

(***************************************************************************)
(* Specification of score_pronunciation with its external stages: the same *)
(* request (same audio, same word, same libraries) is scored repeatedly.   *)
(***************************************************************************)
MaxCalls == 2

\* two distinguishable outcomes of np.random.normal(0, 1e-6, len(audio))
NoiseDraws == {"n1", "n2"}

\* the noise of one call: the draw for the user signal, then the draw for
\* the reference signal
NoisePairs == NoiseDraws \X NoiseDraws

PipeDistances == {RInt(2), Rat(9, 2)}

\* librosa.feature.mfcc and fastdtw are deterministic: the distance is some
\* function of the two noisy signals
DtwLibs == [NoisePairs -> PipeDistances]

PipeUserTexts == {<<"a">>, <<"b">>}

PipeTargetWords == {<<"a">>, <<"A", " ">>}

EspeakRuns == {<<(<<"a">>), (<<"a">>)>>, <<(<<"b">>), (<<"a">>)>>}

EspeakFailures == {"missing", "CalledProcessError", "Exception"}

EspeakOutcomes ==
    {[outcome |-> f] : f \in EspeakFailures}
    \cup {[outcome |-> "ok", user_phonemes |-> r[1], target_phonemes |-> r[2]] :
            r \in EspeakRuns}

NotReached == [outcome |-> "not reached"]

\* a failing stage ends the call before the later stages run
ExternalBehaviours ==
    {[failed |-> f, noise |-> <<>>, espeak |-> NotReached] :
        f \in {"load_audio", "extract_mfcc"}}
    \cup {[failed |-> f, noise |-> n, espeak |-> NotReached] :
            f \in {"compute_dtw_distance", "recognize_phonemes"},
            n \in NoisePairs}
    \cup {[failed |-> "none", noise |-> n, espeak |-> o] :
            n \in NoisePairs, o \in EspeakOutcomes}

InitPipeline ==
    /\ AppIdle
    /\ pc = "pipeline_call"
    /\ user_text \in PipeUserTexts
    /\ target_word \in PipeTargetWords
    /\ dtw_distance = RInt(0)
    /\ ScoreOutputsIdle
    /\ dtw_lib \in DtwLibs
    /\ calls = 0
    /\ ext = NoneObj
    /\ prev_result = NoneObj
    /\ result = NoneObj
    /\ AlignIdle
    /\ SimIdle
    /\ ScorerIdle
    /\ DtwIdle

CallPipeline ==
    /\ pc \in {"pipeline_call", "pipeline_done"}
    /\ calls < MaxCalls
    /\ \E e \in ExternalBehaviours :
          LET r == ScorePronunciation(dtw_lib, e, user_text, target_word)
          IN  /\ ext' = e
              /\ prev_result' = result
              /\ result' = r
              /\ IF IsRaised(r)
                 THEN UNCHANGED <<dtw_distance, target_word_clean,
                                  phoneme_match, lenient, dtw_score,
                                  phoneme_score, overall_score, feedback>>
                 ELSE LET d == dtw_lib[e.noise]
                          loc == ScoreLocals(user_text, target_word, d)
                      IN  /\ dtw_distance' = d
                          /\ target_word_clean' = loc.target_word_clean
                          /\ phoneme_match' = loc.phoneme_match
                          /\ lenient' = loc.lenient
                          /\ dtw_score' = loc.dtw_score
                          /\ phoneme_score' = loc.phoneme_score
                          /\ overall_score' = loc.overall_score
                          /\ feedback' = loc.feedback
    /\ calls' = calls + 1
    /\ pc' = "pipeline_done"
    /\ UNCHANGED <<appVars, user_text, target_word, dtw_lib, alignVars, simVars,
                   scorerVars, dtwVars>>

NextPipeline == CallPipeline

SpecPipeline == InitPipeline /\ [][NextPipeline]_vars

(***************************************************************************)
(* Claims about score_pronunciation as a whole (checked under              *)
(* SpecPipeline).                                                          *)
(***************************************************************************)
BothScored ==
    /\ calls >= 2
    /\ prev_result.kind = "ScoreResult"
    /\ result.kind = "ScoreResult"

\* C12: two calls with the same audio, word and libraries return the same
\* overall_score, dtw_score, phoneme_score, recognized_text, target_word and
\* dtw_distance, whatever noise extract_mfcc adds.
C12_Idempotent ==
    BothScored =>
        /\ result.overall_score = prev_result.overall_score
        /\ result.dtw_score = prev_result.dtw_score
        /\ result.phoneme_score = prev_result.phoneme_score
        /\ result.recognized_text = prev_result.recognized_text
        /\ result.target_word = prev_result.target_word
        /\ result.dtw_distance = prev_result.dtw_distance

\* what the latest call would have returned had espeak-ng run as in o
SameCallWithEspeak(o) ==
    ScorePronunciation(dtw_lib, [ext EXCEPT !.espeak = o], user_text,
                       target_word)

PhonemeAnalysisFailed ==
    /\ pc = "pipeline_done"
    /\ ext.failed = "none"
    /\ ext.espeak.outcome \in EspeakFailures

\* C13: when the phoneme analysis fails (binary missing, subprocess error,
\* other exception) the call still returns a result, with phoneme_analysis
\* None and with the overall_score, dtw_score, phoneme_score and feedback it
\* returns when the analysis succeeds.
C13_PhonemeAnalysisSoftFails ==
    PhonemeAnalysisFailed =>
        /\ result.kind = "ScoreResult"
        /\ result.phoneme_analysis = NoneObj
        /\ \A o \in EspeakOutcomes :
              o.outcome = "ok" =>
                  LET good == SameCallWithEspeak(o)
                  IN  /\ good.kind = "ScoreResult"
                      /\ good.phoneme_analysis # NoneObj
                      /\ result.overall_score = good.overall_score
                      /\ result.dtw_score = good.dtw_score
                      /\ result.phoneme_score = good.phoneme_score
                      /\ result.feedback = good.feedback

C13_Witness ==
    /\ PhonemeAnalysisFailed
    /\ ext.espeak.outcome = "CalledProcessError"
    /\ user_text = <<"b">>
    /\ result.kind = "ScoreResult"
    /\ result.phoneme_analysis = NoneObj
    /\ result.feedback # <<>>

\* C14: when audio loading, feature extraction, DTW or speech recognition
\* fails, the call raises that error to its caller and returns no result.
C14_StageFailureAborts ==
    (pc = "pipeline_done" /\ ext.failed \in Stages) =>
        /\ result = Raise(ext.failed)
        /\ result.kind # "ScoreResult"

C14_Witness ==
    /\ pc = "pipeline_done"
    /\ ext.failed = "compute_dtw_distance"
    /\ result = Raise("compute_dtw_distance")
    /\ prev_result.kind = "ScoreResult"

(***************************************************************************)
(* The scorer cache: get_scorer (callbacks.py), the constructor of         *)
(* PronunciationScore and score_user_pronunciation, as they are called by  *)
(* handle_pronunciation_scoring (handlers.py).                             *)
(***************************************************************************)
MaxRequests == 4

\* the class attribute LANGUAGE_MODELS, cut down to two of its keys
LANGUAGE_MODELS ==
    [en |-> "facebook/wav2vec2-base-960h",
     fr |-> "facebook/wav2vec2-large-xlsr-53-french"]

\* the class attribute ESPEAK_LANGUAGES, cut down to the same keys
ESPEAK_LANGUAGES == [en |-> "en-us", fr |-> "fr-fr"]

MultilingualModel == "facebook/wav2vec2-large-xlsr-53-multilingual"

\* the values of context.user_data['target_lang']; "ko" is a language of gTTS
\* that is no key of LANGUAGE_MODELS
RequestLanguages == {"en", "fr", "ko"}

\* dict.get(key, default)
DictGet(dict, key, default) ==
    IF key \in DOMAIN dict THEN dict[key] ELSE default

ModelNameEnglishDefault(language) ==
    DictGet(LANGUAGE_MODELS, language, LANGUAGE_MODELS["en"])

\* __init__: model_name
ModelName(language) ==
    IF language \notin DOMAIN LANGUAGE_MODELS
    THEN MultilingualModel
    ELSE DictGet(LANGUAGE_MODELS, language, LANGUAGE_MODELS["en"])

\* PronunciationScore(language, debug); handle tells apart the processor and
\* model objects of different from_pretrained loads
NewPronunciationScore(language, debug, load_no) ==
    [kind |-> "PronunciationScore",
     language |-> language,
     debug |-> debug,
     model_name |-> ModelName(language),
     handle |-> load_no]

\* _analyze_phoneme_differences: espeak_lang
EspeakLang(scorer) == DictGet(ESPEAK_LANGUAGES, scorer.language, "en-us")

NeedsNewScorerIgnoringLanguage(scorer, language) == scorer = NoneObj

\* scorer is None or scorer.language != language
NeedsNewScorer(scorer, language) ==
    \/ scorer = NoneObj
    \/ scorer.language # language

WithDebugReloading(scorer, debug) ==
    IF debug /\ ~scorer.debug
    THEN [scorer EXCEPT !.debug = TRUE, !.handle = 0]
    ELSE scorer

\* elif debug and not scorer.debug: scorer.debug = True
WithDebug(scorer, debug) ==
    IF debug /\ ~scorer.debug
    THEN [scorer EXCEPT !.debug = TRUE]
    ELSE scorer

InitScorer ==
    /\ AppIdle
    /\ pc = "handler_idle"
    /\ ScorerIdle
    /\ AlignIdle
    /\ SimIdle
    /\ ScoreIdle
    /\ PipeIdle
    /\ DtwIdle

\* target_lang = context.user_data.get('target_lang', 'en');
\* scorer = get_scorer(language=target_lang).  When from_pretrained raises,
\* the assignment to PRONUNCIATION_SCORER is not reached and the except clause
\* of the handler answers.
GetScorer ==
    /\ pc = "handler_idle"
    /\ requests < MaxRequests
    /\ \E language \in RequestLanguages, loaded \in BOOLEAN :
          /\ target_lang' = language
          /\ IF ~NeedsNewScorer(PRONUNCIATION_SCORER, language)
             THEN /\ loaded
                  /\ scorer_arg' = PRONUNCIATION_SCORER
                  /\ pc' = "handler_scoring"
                  /\ UNCHANGED <<model_loads, PRONUNCIATION_SCORER,
                                 requests, reply>>
             ELSE IF loaded
             THEN /\ model_loads' = model_loads + 1
                  /\ PRONUNCIATION_SCORER' =
                         NewPronunciationScore(language, FALSE, model_loads + 1)
                  /\ scorer_arg' = PRONUNCIATION_SCORER'
                  /\ pc' = "handler_scoring"
                  /\ UNCHANGED <<requests, reply>>
             ELSE /\ reply' = [kind |-> "raised",
                               stage |-> "get_scorer",
                               model_name |-> ModelName(language),
                               espeak_lang |-> "not reached"]
                  /\ requests' = requests + 1
                  /\ pc' = "handler_idle"
                  /\ UNCHANGED <<model_loads, PRONUNCIATION_SCORER,
                                 scorer_arg>>
    /\ UNCHANGED <<appVars, alignVars, simVars, scoreVars, pipeVars, dtwVars>>

\* result = score_user_pronunciation(voice, word, language=target_lang,
\* scorer=scorer, debug=True), then the reply or the except clause of the
\* handler.  scorer_arg refers to the object PRONUNCIATION_SCORER refers to
\* when their handles are equal.
ScoreUserPronunciation ==
    /\ pc = "handler_scoring"
    /\ LET fresh == NeedsNewScorer(scorer_arg, target_lang)
           scorer == IF fresh
                     THEN NewPronunciationScore(target_lang, TRUE,
                                                model_loads + 1)
                     ELSE WithDebug(scorer_arg, TRUE)
           shared == ~fresh /\ PRONUNCIATION_SCORER # NoneObj
                            /\ PRONUNCIATION_SCORER.handle = scorer_arg.handle
       IN  /\ model_loads' = IF fresh THEN model_loads + 1 ELSE model_loads
           /\ PRONUNCIATION_SCORER' =
                  IF shared THEN scorer ELSE PRONUNCIATION_SCORER
           /\ \E outcome \in {"ScoreResult", "raised"} :
                 reply' = [kind |-> outcome,
                           stage |-> "score_user_pronunciation",
                           model_name |-> scorer.model_name,
                           espeak_lang |-> EspeakLang(scorer)]
    /\ scorer_arg' = NoneObj
    /\ requests' = requests + 1
    /\ pc' = "handler_idle"
    /\ UNCHANGED <<appVars, target_lang, alignVars, simVars, scoreVars, pipeVars,
                   dtwVars>>

NextScorer == GetScorer \/ ScoreUserPronunciation

SpecScorer == InitScorer /\ [][NextScorer]_vars

(***************************************************************************)
(* Claims about languages and the shared scorer (checked under SpecScorer).*)
(***************************************************************************)
RequestAnswered == pc = "handler_idle" /\ requests > 0

UnmappedLanguage == target_lang \notin DOMAIN LANGUAGE_MODELS

Scored == reply.stage = "score_user_pronunciation"

C16_Original == model_loads <= 1

IsGetScorerStep == pc = "handler_idle" /\ pc' = "handler_scoring"

IsScoreUserPronunciationStep == pc = "handler_scoring" /\ pc' = "handler_idle"

CachedFor(language) ==
    /\ PRONUNCIATION_SCORER # NoneObj
    /\ PRONUNCIATION_SCORER.language = language

\* C16: get_scorer keeps the cached scorer (no load) when it was built for
\* the requested language and otherwise builds exactly one new scorer that
\* replaces it; score_user_pronunciation, handed that scorer, builds none.
C16_LoadPerLanguageChange ==
    [][/\ IsGetScorerStep =>
             IF CachedFor(target_lang')
             THEN /\ model_loads' = model_loads
                  /\ PRONUNCIATION_SCORER' = PRONUNCIATION_SCORER
             ELSE /\ model_loads' = model_loads + 1
                  /\ PRONUNCIATION_SCORER'.language = target_lang'
                  /\ PRONUNCIATION_SCORER'.handle = model_loads + 1
       /\ IsScoreUserPronunciationStep => model_loads' = model_loads]_vars

C16_Witness ==
    /\ RequestAnswered
    /\ requests = 3
    /\ model_loads = 2
    /\ PRONUNCIATION_SCORER.language = "en"
    /\ PRONUNCIATION_SCORER.handle = 2

\* C17 as stated: a scoring call leaves every attribute of the scorer it was
\* handed unchanged.
C17_Original ==
    [][IsScoreUserPronunciationStep =>
           PRONUNCIATION_SCORER' = PRONUNCIATION_SCORER]_vars

\* C17: a scoring call leaves the language and the model handles of the
\* scorer it was handed unchanged; its debug flag is True after the call
\* (the handler passes debug=True) and is never switched back.
C17_OnlyDebugSwitchedOn ==
    [][IsScoreUserPronunciationStep =>
           /\ PRONUNCIATION_SCORER'.language = PRONUNCIATION_SCORER.language
           /\ PRONUNCIATION_SCORER'.model_name = PRONUNCIATION_SCORER.model_name
           /\ PRONUNCIATION_SCORER'.handle = PRONUNCIATION_SCORER.handle
           /\ PRONUNCIATION_SCORER'.debug = TRUE]_vars

C17_Witness ==
    /\ RequestAnswered
    /\ requests = 1
    /\ model_loads = 1
    /\ PRONUNCIATION_SCORER.handle = 1
    /\ PRONUNCIATION_SCORER.debug = TRUE

(***************************************************************************)
(* compute_dtw_distance.  fastdtw is modelled after the pure-Python        *)
(* implementation of the library (fastdtw/fastdtw.py: fastdtw, __fastdtw,  *)
(* __dtw, __reduce_by_half, __expand_window) with its default radius.  A   *)
(* frame has one coefficient, so scipy's euclidean(a, b) is |a - b|.       *)
(* Cells of D are <<i, j>> with i, j counted from 1 and <<0, 0>> the       *)
(* origin; cells of a path or a window are counted from 0 as in the        *)
(* library.                                                                *)
(***************************************************************************)
\* fastdtw(x, y, radius=1, dist=None): the default radius
FastDtwRadius == 1

\* float('inf'); RLt and RAdd treat it as larger than every rational
Infinity == [n |-> 1, d |-> 0]

EuclideanSigned(a, b) == RSub(a, b)

\* scipy.spatial.distance.euclidean on frames of one coefficient
Euclidean(a, b) == LET diff == RSub(a, b)
                   IN  IF diff.n < 0 THEN RSub(RInt(0), diff) ELSE diff

\* D[i, j] of the defaultdict(lambda: (float('inf'),)): the cost only
DCost(D, cell) == IF cell \in DOMAIN D THEN D[cell].cost ELSE Infinity

\* min(c1, c2, c3, key=lambda a: a[0]): the first of the smallest
MinByCost(c1, c2, c3) ==
    IF ~RLt(c2.cost, c1.cost) /\ ~RLt(c3.cost, c1.cost) THEN c1
    ELSE IF ~RLt(c3.cost, c2.cost) THEN c2
    ELSE c3

\* the body of the loop "for i, j in window" of __dtw
DtwCell(D, x, y, i, j) ==
    LET dt == Euclidean(x[i], y[j])
    IN  MinByCost(
            [cost |-> RAdd(DCost(D, <<i - 1, j>>), dt), pi |-> i - 1, pj |-> j],
            [cost |-> RAdd(DCost(D, <<i, j - 1>>), dt), pi |-> i, pj |-> j - 1],
            [cost |-> RAdd(DCost(D, <<i - 1, j - 1>>), dt),
             pi |-> i - 1, pj |-> j - 1])

\* the loop "for i, j in window" from the k-th cell of the window on
RECURSIVE DtwFill(_, _, _, _, _)
DtwFill(D, x, y, window, k) ==
    IF k > Len(window) THEN D
    ELSE LET i == window[k][1] + 1
             j == window[k][2] + 1
         IN  DtwFill(D @@ (<<i, j>> :> DtwCell(D, x, y, i, j)),
                     x, y, window, k + 1)

\* the loop "while not (i == j == 0)" of __dtw; acc is the list path before
\* path.reverse().  D[i, j][1] on a cell that was never written indexes the
\* one-element default tuple and raises IndexError.
RECURSIVE DtwPath(_, _, _, _)
DtwPath(D, i, j, acc) ==
    IF i = 0 /\ j = 0 THEN [kind |-> "path", path |-> Reversed(acc)]
    ELSE IF <<i, j>> \notin DOMAIN D THEN Raise("IndexError")
    ELSE DtwPath(D, D[<<i, j>>].pi, D[<<i, j>>].pj,
                 Append(acc, <<i - 1, j - 1>>))

\* window = [(i, j) for i in range(len_x) for j in range(len_y)]
FullWindow(len_x, len_y) ==
    [k \in 1..(len_x * len_y) |->
        <<(k - 1) \div len_y, (k - 1) % len_y>>]

\* __dtw(x, y, window, dist): (D[len_x, len_y][0], path) or the exception
Dtw(x, y, window) ==
    LET D0 == (<<0, 0>> :> [cost |-> RInt(0), pi |-> 0, pj |-> 0])
        D == DtwFill(D0, x, y, window, 1)
        p == DtwPath(D, Len(x), Len(y), <<>>)
    IN  IF IsRaised(p) THEN p
        ELSE [kind |-> "dtw",
              distance |-> DCost(D, <<Len(x), Len(y)>>),
              path |-> p.path]

\* __reduce_by_half: the means of consecutive pairs
ReduceByHalf(x) ==
    [k \in 1..(Len(x) \div 2) |->
        RMul(RAdd(x[2 * k - 1], x[2 * k]), Rat(1, 2))]

\* __expand_window, first two loops: the cells within radius of the path,
\* each blown up to its four cells of the finer resolution
ExpandedCells(path, radius) ==
    LET path_ == {<<path[k][1] + a, path[k][2] + b>> :
                    k \in 1..Len(path),
                    a \in (0 - radius)..radius,
                    b \in (0 - radius)..radius}
    IN  UNION {{<<2 * c[1], 2 * c[2]>>, <<2 * c[1], 2 * c[2] + 1>>,
                <<2 * c[1] + 1, 2 * c[2]>>, <<2 * c[1] + 1, 2 * c[2] + 1>>} :
               c \in path_}

\* __expand_window, the loop "for j in range(start_j, len_y)" of row i;
\* new_start_j is -1 for None
RECURSIVE WindowRow(_, _, _, _, _, _)
WindowRow(window_, i, j, len_y, new_start_j, acc) ==
    IF j >= len_y THEN [cells |-> acc, new_start_j |-> new_start_j]
    ELSE IF <<i, j>> \in window_
    THEN WindowRow(window_, i, j + 1, len_y,
                   IF new_start_j = -1 THEN j ELSE new_start_j,
                   Append(acc, <<i, j>>))
    ELSE IF new_start_j # -1
    THEN [cells |-> acc, new_start_j |-> new_start_j]
    ELSE WindowRow(window_, i, j + 1, len_y, new_start_j, acc)

\* __expand_window, the loop "for i in range(0, len_x)"; range(None, len_y)
\* raises TypeError
RECURSIVE WindowRows(_, _, _, _, _, _)
WindowRows(window_, i, len_x, len_y, start_j, acc) ==
    IF i >= len_x THEN [kind |-> "window", cells |-> acc]
    ELSE IF start_j = -1 THEN Raise("TypeError")
    ELSE LET row == WindowRow(window_, i, start_j, len_y, -1, <<>>)
         IN  WindowRows(window_, i + 1, len_x, len_y, row.new_start_j,
                        acc \o row.cells)

ExpandWindow(path, len_x, len_y, radius) ==
    WindowRows(ExpandedCells(path, radius), 0, len_x, len_y, 0, <<>>)

\* __fastdtw
RECURSIVE FastDtw(_, _, _)
FastDtw(x, y, radius) ==
    LET min_time_size == radius + 2
    IN  IF Len(x) < min_time_size \/ Len(y) < min_time_size
        THEN Dtw(x, y, FullWindow(Len(x), Len(y)))
        ELSE LET low == FastDtw(ReduceByHalf(x), ReduceByHalf(y), radius)
                 window == IF IsRaised(low) THEN low
                           ELSE ExpandWindow(low.path, Len(x), Len(y), radius)
             IN  IF IsRaised(window) THEN window
                 ELSE Dtw(x, y, window.cells)

\* compute_dtw_distance: normalized_distance = distance / np.sqrt(len(path))
\* is kept as the pair of distance and len(path); numpy gives nan for
\* 0 / sqrt(0) and inf for a positive distance over sqrt(0)
ComputeDtwDistance(user_seq, ref_seq) ==
    LET r == FastDtw(user_seq, ref_seq, FastDtwRadius)
    IN  IF IsRaised(r) THEN r
        ELSE [kind |-> "returned",
              distance |-> r.distance,
              path |-> r.path]

(***************************************************************************)
(* Specification of compute_dtw_distance: the two feature sequences are    *)
(* drawn in Init and the call is one step.                                 *)
(***************************************************************************)
\* every sequence of at most MaxShortFrames frames is an input
MaxShortFrames == 3

\* sequences that repeat two frames are inputs up to MaxFrames frames
MaxFrames == 10

FrameValues == {RInt(0), RInt(2)}

Alternating(n, a, b) == [k \in 1..n |-> IF k % 2 = 1 THEN a ELSE b]

FrameSeqs ==
    StringsUpTo(FrameValues, MaxShortFrames)
    \cup {Alternating(n, a, b) :
            n \in (MaxShortFrames + 1)..MaxFrames,
            a \in FrameValues, b \in FrameValues}

InitDtw ==
    /\ AppIdle
    /\ pc = "dtw_call"
    /\ mfcc_user \in FrameSeqs
    /\ mfcc_ref \in FrameSeqs
    /\ dtw_out = NoneObj
    /\ AlignIdle
    /\ SimIdle
    /\ ScoreIdle
    /\ PipeIdle
    /\ ScorerIdle

CallComputeDtwDistance ==
    /\ pc = "dtw_call"
    /\ dtw_out' = ComputeDtwDistance(mfcc_user, mfcc_ref)
    /\ pc' = "dtw_done"
    /\ UNCHANGED <<appVars, mfcc_user, mfcc_ref, alignVars, simVars, scoreVars,
                   pipeVars, scorerVars>>

NextDtw == CallComputeDtwDistance

SpecDtw == InitDtw /\ [][NextDtw]_vars

(***************************************************************************)
(* Claims about compute_dtw_distance (checked under SpecDtw).  The         *)
(* normalized distance is distance / sqrt(len(path)).                      *)
(***************************************************************************)
\* C18: the distance of a non-empty sequence to itself is exactly 0.
C18_SelfDistanceZero ==
    (pc = "dtw_done" /\ mfcc_user = mfcc_ref /\ Len(mfcc_user) > 0) =>
        /\ dtw_out.kind = "returned"
        /\ Len(dtw_out.path) > 0
        /\ dtw_out.distance = RInt(0)

\* C19: for non-empty sequences the call returns, the raw cost is a finite
\* number >= 0 and the path is not empty, so the normalized distance is a
\* number >= 0.
C19_DistanceNonNegative ==
    (pc = "dtw_done" /\ Len(mfcc_user) > 0 /\ Len(mfcc_ref) > 0) =>
        /\ dtw_out.kind = "returned"
        /\ dtw_out.distance # Infinity
        /\ RLe(RInt(0), dtw_out.distance)
        /\ Len(dtw_out.path) >= 1

C19_Witness ==
    /\ pc = "dtw_done"
    /\ mfcc_user = <<RInt(0), RInt(2), RInt(0), RInt(2)>>
    /\ mfcc_ref = <<RInt(2), RInt(2)>>
    /\ dtw_out.kind = "returned"
    /\ dtw_out.distance = RInt(4)
    /\ Len(dtw_out.path) = 5

\* C20: with a sequence of zero frames the call raises EmptySequence and
\* returns no distance.
C20_EmptySequenceRaises ==
    (pc = "dtw_done" /\ (Len(mfcc_user) = 0 \/ Len(mfcc_ref) = 0)) =>
        dtw_out = Raise("EmptySequence")

(***************************************************************************)
(* _levenshtein_distance on its own (SpecLev): Init draws the two strings, *)
(* the action applies the function.                                        *)
(***************************************************************************)
MaxLevLen == 3

LevAlphabet == {"a", "b", "c"}

Cat == <<"c", "a", "t">>

Cats == <<"c", "a", "t", "s">>

Bat == <<"b", "a", "t">>

LevStrings == StringsUpTo(LevAlphabet, MaxLevLen) \cup {Cat, Cats, Bat}

CoreIdle == AlignIdle /\ SimIdle /\ ScoreIdle /\ ServiceIdle

InitLev ==
    /\ pc = "lev_call"
    /\ lev_s1 \in LevStrings
    /\ lev_s2 \in LevStrings
    /\ lev_distance = 0
    /\ CoreIdle
    /\ FeedbackIdle
    /\ FusionIdle
    /\ StreamIdle
    /\ SessionIdle

CallLevenshteinDistance ==
    /\ pc = "lev_call"
    /\ lev_distance' = LevenshteinDistance(lev_s1, lev_s2)
    /\ pc' = "lev_done"
    /\ UNCHANGED <<lev_s1, lev_s2, alignVars, simVars, scoreVars, serviceVars,
                   fbVars, fusionVars, streamVars, sessionVars>>

NextLev == CallLevenshteinDistance

SpecLev == InitLev /\ [][NextLev]_vars

\* C21: _levenshtein_distance(s1, s2) is the minimum number of single-symbol
\* insertions, deletions and substitutions turning one string into the
\* other: it is the corner cell of the aligner's full-table recurrence for
\* every pair of strings (the empty one included), lies between the length
\* difference and the longer length, is 0 exactly for equal strings, is
\* symmetric, and gives cat/cat = 0, cat/cats = 1, cat/bat = 1.
C21_LevenshteinIsEditDistance ==
    pc = "lev_done" =>
        /\ lev_distance = EditDistance(lev_s1, lev_s2)
        /\ lev_distance = LevenshteinDistance(lev_s2, lev_s1)
        /\ lev_distance >= Max2(Len(lev_s1), Len(lev_s2))
                               - Min2(Len(lev_s1), Len(lev_s2))
        /\ lev_distance <= Max2(Len(lev_s1), Len(lev_s2))
        /\ (lev_distance = 0) <=> (lev_s1 = lev_s2)
        /\ (lev_s1 = Cat /\ lev_s2 = Cat) => lev_distance = 0
        /\ (lev_s1 = Cat /\ lev_s2 = Cats) => lev_distance = 1
        /\ (lev_s1 = Cat /\ lev_s2 = Bat) => lev_distance = 1

C21_Witness ==
    /\ pc = "lev_done"
    /\ lev_s1 = <<"a", "b">>
    /\ lev_s2 = <<"b", "a", "c">>
    /\ lev_distance = 2

(***************************************************************************)
(* _generate_feedback on its own (SpecFeedback): Init draws the six        *)
(* arguments, the action builds feedback_parts.  Each part is a tuple      *)
(* whose first element names the sentence.                                 *)
(***************************************************************************)
MaxFeedbackTextLen == 2

FeedbackAlphabet == {"a", " "}

FeedbackTexts == StringsUpTo(FeedbackAlphabet, MaxFeedbackTextLen)

\* 45, 50, ..., 95: every band of the headline cascade and its boundaries
FeedbackOverallScores == {RInt(5 * k) : k \in 9..19}

FeedbackDtwScores == {RInt(65), RInt(70), RInt(75)}

FeedbackPhonemeScores == {RInt(65), RInt(70), RInt(75), RInt(80), RInt(85)}

FeedbackDistances == {RInt(5), RInt(6), RInt(7)}

InitFeedback ==
    /\ pc = "gf_call"
    /\ fb_args \in [kind : {"args"},
                    overall : FeedbackOverallScores,
                    dtw : FeedbackDtwScores,
                    phoneme : FeedbackPhonemeScores,
                    recognized : FeedbackTexts,
                    target : FeedbackTexts,
                    dtw_distance : FeedbackDistances]
    /\ fb_parts = <<>>
    /\ CoreIdle
    /\ LevIdle
    /\ FusionIdle
    /\ StreamIdle
    /\ SessionIdle

CallGenerateFeedback ==
    /\ pc = "gf_call"
    /\ fb_parts' = GenerateFeedback(fb_args.overall, fb_args.dtw, fb_args.phoneme,
                                    fb_args.recognized, fb_args.target,
                                    fb_args.dtw_distance)
    /\ pc' = "gf_done"
    /\ UNCHANGED <<fb_args, alignVars, simVars, scoreVars, serviceVars,
                   levVars, fusionVars, streamVars, sessionVars>>

NextFeedback == CallGenerateFeedback

SpecFeedback == InitFeedback /\ [][NextFeedback]_vars

(***************************************************************************)
(* Claims about _generate_feedback (checked under SpecFeedback).           *)
(***************************************************************************)
\* the sentence named by `first` is among the parts
HasPart(first) == \E i \in 1..Len(fb_parts) : fb_parts[i][1] = first

HeardVersusExpected ==
    \E i \in 1..Len(fb_parts) :
        /\ fb_parts[i][1] = "Heard:"
        /\ fb_parts[i][2] = fb_args.recognized
        /\ fb_parts[i][4] = fb_args.target

RecognitionCondition ==
    /\ RemoveSpaces(fb_args.recognized) # RemoveSpaces(fb_args.target)
    /\ RLt(fb_args.phoneme, RInt(80))

\* C22 as stated: the heard-versus-expected sentence is appended exactly
\* when the folded texts differ and phonemeScore < 80, the empty
\* recognizedText included.
C22_Original ==
    pc = "gf_done" => (HeardVersusExpected <=> RecognitionCondition)

\* C22: the heard-versus-expected sentence is appended exactly when the
\* folded texts differ, phonemeScore < 80 and recognizedText is not empty;
\* under the same condition an empty recognizedText gets "Try speaking more
\* clearly." instead, and in all other cases neither sentence is appended.
C22_HeardUnlessEmpty ==
    pc = "gf_done" =>
        /\ HeardVersusExpected <=>
               (RecognitionCondition /\ fb_args.recognized # <<>>)
        /\ HasPart("Try speaking more clearly.") <=>
               (RecognitionCondition /\ fb_args.recognized = <<>>)

C22_Witness ==
    /\ pc = "gf_done"
    /\ fb_args.recognized = <<>>
    /\ fb_args.target = <<"a">>
    /\ fb_args.phoneme = RInt(75)
    /\ HasPart("Try speaking more clearly.")
    /\ ~HeardVersusExpected

GuidanceTips == {"Focus on clarity and rhythm.", "Work on timing and rhythm.",
                 "Focus on pronouncing each sound."}

\* C23: at most one guidance tip is appended: the clarity/rhythm tip iff
\* dtwScore < 70 and phonemeScore < 70, the timing tip iff dtwScore < 70 and
\* phonemeScore >= 70, the per-sound tip iff phonemeScore < 70 and
\* dtwScore >= 70, none when both are >= 70.
C23_AtMostOneGuidanceTip ==
    pc = "gf_done" =>
        LET dtw_low == RLt(fb_args.dtw, RInt(70))
            phoneme_low == RLt(fb_args.phoneme, RInt(70))
        IN  /\ Cardinality({i \in 1..Len(fb_parts) :
                              fb_parts[i][1] \in GuidanceTips}) <= 1
            /\ HasPart("Focus on clarity and rhythm.") <=> (dtw_low /\ phoneme_low)
            /\ HasPart("Work on timing and rhythm.") <=> (dtw_low /\ ~phoneme_low)
            /\ HasPart("Focus on pronouncing each sound.") <=> (phoneme_low /\ ~dtw_low)
            /\ (~dtw_low /\ ~phoneme_low) =>
                   \A i \in 1..Len(fb_parts) : fb_parts[i][1] \notin GuidanceTips

C23_Witness ==
    /\ pc = "gf_done"
    /\ fb_args.dtw = RInt(65)
    /\ fb_args.phoneme = RInt(70)
    /\ HasPart("Work on timing and rhythm.")
    /\ ~HasPart("Focus on clarity and rhythm.")

\* the rule of the cascade a sentence belongs to
RuleOf(part) ==
    IF part[1] \in {"Heard:", "Try speaking more clearly."} THEN 2
    ELSE IF part[1] \in GuidanceTips THEN 3
    ELSE IF part[1] = "Try speaking at a natural pace." THEN 4
    ELSE 1

HeadlineFor(overall) ==
    IF RLe(RInt(90), overall) THEN "Excellent pronunciation!"
    ELSE IF RLe(RInt(80), overall) THEN "Very good pronunciation!"
    ELSE IF RLe(RInt(70), overall) THEN "Good pronunciation!"
    ELSE IF RLe(RInt(60), overall) THEN "Decent - keep practicing!"
    ELSE IF RLe(RInt(50), overall) THEN "Fair - room for improvement."
    ELSE "Keep practicing!"

\* C24: the feedback starts with exactly one headline, chosen by the overall
\* score alone (>= 90 excellent, >= 80 very good, >= 70 good, >= 60 decent,
\* >= 50 fair, otherwise needs-practice); every later sentence comes from a
\* later rule, in rule order.
C24_HeadlineFirstThenRuleOrder ==
    pc = "gf_done" =>
        /\ Len(fb_parts) >= 1
        /\ fb_parts[1] = <<HeadlineFor(fb_args.overall)>>
        /\ \A i \in 2..Len(fb_parts) : RuleOf(fb_parts[i]) > 1
        /\ \A i \in 1..(Len(fb_parts) - 1) :
               RuleOf(fb_parts[i]) < RuleOf(fb_parts[i + 1])

C24_Witness ==
    /\ pc = "gf_done"
    /\ fb_args.overall = RInt(60)
    /\ Len(fb_parts) = 4
    /\ fb_parts[1] = <<"Decent - keep practicing!">>
    /\ fb_parts[2][1] = "Heard:"
    /\ fb_parts[3] = <<"Focus on clarity and rhythm.">>
    /\ fb_parts[4] = <<"Try speaking at a natural pace.">>

(***************************************************************************)
(* FileStreamer (src/input_streamer.py).  Init is the streamer after       *)
(* __init__ with the file's samples; each step of the generator frames()   *)
(* is one action: YieldFrame runs one loop iteration up to and including   *)
(* the bookkeeping after the yield, FramesReturn leaves the loop.          *)
(***************************************************************************)
MaxWavLen == 6

\* bound on the frames taken from a generator that never ends
MaxSeq == 8

SampleRates == {500, 1000}

ChunkMs == 1..4

OverlapMs == 0..3

\* int(sr * ms / 1000)
SamplesOf(sr, ms) == (sr * ms) \div 1000

\* the file's samples: sample i has value i, so none of them is 0
Wavs == {[i \in 1..n |-> i] : n \in 0..MaxWavLen}

\* Python's index normalisation in a slice of a sequence of n items
SliceIndex(i, n) ==
    LET shifted == IF i < 0 THEN i + n ELSE i
    IN  Max2(0, Min2(n, shifted))

\* w[a:b]
PySlice(w, a, b) ==
    LET lo == SliceIndex(a, Len(w))
        hi == SliceIndex(b, Len(w))
    IN  IF hi <= lo THEN <<>> ELSE SubSeq(w, lo + 1, hi)

PadFrameNever(frame, size) == frame

\* np.pad(frame, (0, size - len(frame))) when the frame is short
PadFrame(frame, size) ==
    IF Len(frame) < size
    THEN frame \o [i \in 1..(size - Len(frame)) |-> 0]
    ELSE frame

InitStreamer ==
    /\ pc = "frames_loop"
    /\ wav \in Wavs
    /\ \E sr \in SampleRates, chunk_ms \in ChunkMs, overlap_ms \in OverlapMs :
          /\ chunk = SamplesOf(sr, chunk_ms)
          /\ overlap = SamplesOf(sr, overlap_ms)
    /\ pos = 0
    /\ seq = 0
    /\ yielded = <<>>
    /\ CoreIdle
    /\ LevIdle
    /\ FeedbackIdle
    /\ FusionIdle
    /\ SessionIdle

YieldFrame ==
    /\ pc = "frames_loop"
    /\ pos < Len(wav)
    /\ seq < MaxSeq
    /\ LET end == pos + chunk
           frame == PadFrame(PySlice(wav, pos, end), chunk)
       IN  yielded' = Append(yielded, [frame |-> frame, seq |-> seq])
    /\ pos' = pos + (chunk - overlap)
    /\ seq' = seq + 1
    /\ UNCHANGED <<pc, wav, chunk, overlap, alignVars, simVars, scoreVars,
                   serviceVars, levVars, fbVars, fusionVars, sessionVars>>

FramesReturn ==
    /\ pc = "frames_loop"
    /\ ~(pos < Len(wav))
    /\ pc' = "frames_done"
    /\ UNCHANGED <<streamVars, alignVars, simVars, scoreVars, serviceVars,
                   levVars, fbVars, fusionVars, sessionVars>>

NextStreamer == YieldFrame \/ FramesReturn

SpecStreamer == InitStreamer /\ [][NextStreamer]_vars

\* the consumer's for loop keeps asking the generator for the next frame
SpecStreamerFair == SpecStreamer /\ WF_vars(NextStreamer)

(***************************************************************************)
(* Claim about FileStreamer.frames (checked under SpecStreamerFair).       *)
(***************************************************************************)
FramesWellFormed ==
    \A k \in 1..Len(yielded) :
        LET start == (k - 1) * (chunk - overlap)
            samples == PySlice(wav, start, start + chunk)
        IN  /\ Len(yielded[k].frame) = chunk
            /\ yielded[k].seq = k - 1
            /\ SubSeq(yielded[k].frame, 1, Len(samples)) = samples
            /\ \A i \in (Len(samples) + 1)..chunk : yielded[k].frame[i] = 0

\* C25: every yielded frame has exactly chunk samples whatever the audio
\* length (a short final frame is zero-padded), the sequence numbers are
\* 0, 1, 2, ..., frame k starts k * (chunk - overlap) samples into the
\* audio, and the generator terminates whenever overlap < chunk.
C25_FramesAndTermination ==
    /\ []FramesWellFormed
    /\ (overlap < chunk) ~> (pc = "frames_done")

C25_Witness ==
    /\ pc = "frames_done"
    /\ chunk = 3
    /\ overlap = 1
    /\ Len(wav) = 6
    /\ Len(yielded) = 3
    /\ yielded[2] = [frame |-> <<3, 4, 5>>, seq |-> 1]
    /\ yielded[3] = [frame |-> <<5, 6, 0>>, seq |-> 2]

(***************************************************************************)
(* The score calculation of score_pronunciation (lines 352-389) as a       *)
(* function of the DTW distance and the word similarity (SpecFusion): one  *)
(* step runs it twice at the same distance, for a lower and a higher       *)
(* similarity.                                                             *)
(***************************************************************************)
\* values _calculate_phoneme_similarity can return, around both cutoffs;
\* 17/18 is one substitution in nine characters over the same character set
Similarities == {Rat(0, 100), Rat(50, 100), Rat(79, 100), Rat(80, 100),
                 Rat(81, 100), Rat(90, 100), Rat(17, 18), Rat(95, 100),
                 Rat(96, 100), Rat(100, 100)}

\* user_text == target_word_clean makes the similarity 1.0
PerfectMatches(pmatch) == IF pmatch = RInt(1) THEN BOOLEAN ELSE {FALSE}

Fuse(d, pmatch, is_perfect_match) ==
    LET is_near_perfect == RLe(Rat(95, 100), pmatch)
        is_lenient == is_perfect_match \/ is_near_perfect
        dscore == ClampScore(IF is_lenient THEN LenientDtwScore(d)
                             ELSE StrictDtwScore(d))
        pscore == PhonemeScore(pmatch)
        overall == OverallScore(pmatch, dscore, pscore)
    IN  [kind |-> "scores",
         is_perfect_match |-> is_perfect_match,
         lenient |-> is_lenient,
         dtw_score |-> dscore,
         phoneme_score |-> pscore,
         overall_score |-> overall,
         headline |-> OverallAssessment(overall)[1]]

InitFusion ==
    /\ pc = "fuse_call"
    /\ fu_distance \in DtwDistances
    /\ fu_sim_lo \in Similarities
    /\ fu_sim_hi \in Similarities
    /\ RLe(fu_sim_lo, fu_sim_hi)
    /\ fu_lo = NoneObj
    /\ fu_hi = NoneObj
    /\ CoreIdle
    /\ LevIdle
    /\ FeedbackIdle
    /\ StreamIdle
    /\ SessionIdle

CallFuse ==
    /\ pc = "fuse_call"
    /\ \E perfect_lo \in PerfectMatches(fu_sim_lo),
          perfect_hi \in PerfectMatches(fu_sim_hi) :
          /\ fu_lo' = Fuse(fu_distance, fu_sim_lo, perfect_lo)
          /\ fu_hi' = Fuse(fu_distance, fu_sim_hi, perfect_hi)
    /\ pc' = "fuse_done"
    /\ UNCHANGED <<fu_distance, fu_sim_lo, fu_sim_hi, alignVars, simVars,
                   scoreVars, serviceVars, levVars, fbVars, streamVars,
                   sessionVars>>

NextFusion == CallFuse

SpecFusion == InitFusion /\ [][NextFusion]_vars

(***************************************************************************)
(* Claims about the score calculation (checked under SpecFusion).          *)
(***************************************************************************)
\* C26: at the same distance the strict branch (similarity < 0.95) gives a
\* dtw_score no greater than the lenient branch (similarity >= 0.95).
C26_StrictNoGreaterThanLenient ==
    (pc = "fuse_done" /\ ~fu_lo.lenient /\ fu_hi.lenient) =>
        RLe(fu_lo.dtw_score, fu_hi.dtw_score)

\* C27: at a fixed distance the overall score is non-decreasing in the
\* similarity: s1 <= s2 gives overall(d, s1) <= overall(d, s2).
C27_OverallMonotoneInSimilarity ==
    pc = "fuse_done" => RLe(fu_lo.overall_score, fu_hi.overall_score)

RewardedHeavily(sim, run) ==
    RLe(Rat(95, 100), sim) =>
        /\ RLe(Rat(858, 10), run.overall_score)
        /\ run.is_perfect_match => RLe(Rat(888, 10), run.overall_score)
        /\ run.headline \in {"Excellent pronunciation!",
                             "Very good pronunciation!"}

\* C28: whenever the similarity is >= 0.95 the overall score is at least
\* 85.8 at every distance (at least 88.8 when the word is recognized
\* exactly), so the headline is never below "Very good".
C28_NearExactNeverBelowVeryGood ==
    pc = "fuse_done" =>
        /\ RewardedHeavily(fu_sim_lo, fu_lo)
        /\ RewardedHeavily(fu_sim_hi, fu_hi)

C28_Witness ==
    /\ pc = "fuse_done"
    /\ fu_distance = RInt(8)
    /\ fu_sim_hi = Rat(95, 100)
    /\ fu_hi.lenient
    /\ fu_hi.dtw_score = RInt(72)
    /\ fu_hi.overall_score = Rat(858, 10)
    /\ fu_hi.headline = "Very good pronunciation!"

(***************************************************************************)
(* Claim about the empty transcript in score_pronunciation (checked under  *)
(* SpecScore).                                                             *)
(***************************************************************************)
\* C29: when the recognizer returns an empty transcript for a non-empty
\* target word, phoneme_score is below 80 and the feedback contains "Try
\* speaking more clearly.".
C29_EmptyTranscriptAsksForClarity ==
    (pc = "sp_done" /\ user_text = <<>> /\ target_word_clean # <<>>) =>
        /\ RLt(phoneme_score, RInt(80))
        /\ \E i \in 1..Len(feedback) :
               feedback[i] = <<"Try speaking more clearly.">>

(***************************************************************************)
(* The Telegram bot's session modes (SpecSession): context.user_data of    *)
(* one chat, restricted to the keys that steer handle_voice.  A key that   *)
(* is absent is None.  Each update is handled in one step.                 *)
(***************************************************************************)
MaxUpdates == 5

PracticeWords == {"hello"}

\* preset_map of handle_set_voice_fx
preset_map == [voice_fx_mtf |-> "male_to_female",
               voice_fx_ftm |-> "female_to_male",
               voice_fx_older |-> "older",
               voice_fx_younger |-> "younger"]

\* the callback data of the buttons of the voice effects menu
VoiceFxButtons == DOMAIN preset_map

\* a fresh chat: an empty dict
EmptyUserData ==
    [kind |-> "user_data",
     practicing_word |-> None,
     mode |-> None,
     voice_fx_preset |-> None,
     awaiting_dictionary_word |-> None]

\* Python truthiness of a stored value
Truthy(x) == x \notin {None, "False", ""}

\* the handler handle_voice passes the voice message to
RouteVoice(ud) ==
    IF Truthy(ud.practicing_word) THEN "handle_pronunciation_scoring"
    ELSE IF ud.mode = "voice_fx" THEN "handle_voice_effects"
    ELSE "handle_voice_translation"

\* user_data after handle_voice_effects; transformed is FALSE when loading
\* or transforming the audio raised
AfterVoiceEffects(ud, transformed) ==
    IF ~Truthy(ud.voice_fx_preset)
    THEN ud
    ELSE IF transformed
    THEN [ud EXCEPT !.mode = None, !.voice_fx_preset = None]
    ELSE ud

\* user_data after handle_pronunciation_scoring, on both exits
AfterPronunciationScoring(ud) == [ud EXCEPT !.practicing_word = None]

InitSession ==
    /\ pc = "bot_idle"
    /\ user_data = EmptyUserData
    /\ routed = None
    /\ last_update = None
    /\ updates = 0
    /\ CoreIdle
    /\ LevIdle
    /\ FeedbackIdle
    /\ FusionIdle
    /\ StreamIdle

\* what every handler step leaves alone or counts
Handled(update) ==
    /\ updates < MaxUpdates
    /\ updates' = updates + 1
    /\ last_update' = update
    /\ UNCHANGED <<pc, alignVars, simVars, scoreVars, serviceVars, levVars,
                   fbVars, fusionVars, streamVars>>

handle_practice_mode ==
    /\ \E word \in PracticeWords :
          user_data' = [user_data EXCEPT !.practicing_word = word]
    /\ UNCHANGED routed
    /\ Handled("practice")

handle_open_dictionary ==
    /\ user_data' = [user_data EXCEPT !.awaiting_dictionary_word = "True"]
    /\ UNCHANGED routed
    /\ Handled("open_dictionary")

handle_open_voice_fx ==
    /\ user_data' = [user_data EXCEPT !.mode = "voice_fx",
                                      !.voice_fx_preset = None,
                                      !.practicing_word = None,
                                      !.awaiting_dictionary_word = None]
    /\ UNCHANGED routed
    /\ Handled("open_voice_fx")

handle_set_voice_fx ==
    /\ \E data \in VoiceFxButtons :
          LET preset == preset_map[data]
          IN  user_data' = IF preset = None
                           THEN user_data
                           ELSE [user_data EXCEPT !.mode = "voice_fx",
                                                  !.voice_fx_preset = preset]
    /\ UNCHANGED routed
    /\ Handled("set_voice_fx")

handle_home ==
    /\ user_data' = [user_data EXCEPT !.awaiting_dictionary_word = None,
                                      !.practicing_word = None]
    /\ UNCHANGED routed
    /\ Handled("home")

handle_message ==
    /\ user_data' = IF Truthy(user_data.awaiting_dictionary_word)
                    THEN [user_data EXCEPT !.awaiting_dictionary_word = "False"]
                    ELSE user_data
    /\ UNCHANGED routed
    /\ Handled("message")

handle_voice ==
    /\ LET handler == RouteVoice(user_data)
       IN  /\ routed' = handler
           /\ \E transformed \in BOOLEAN :
                 user_data' =
                     IF handler = "handle_pronunciation_scoring"
                     THEN AfterPronunciationScoring(user_data)
                     ELSE IF handler = "handle_voice_effects"
                     THEN AfterVoiceEffects(user_data, transformed)
                     ELSE user_data
    /\ Handled("voice")

NextSession ==
    \/ handle_practice_mode
    \/ handle_open_dictionary
    \/ handle_open_voice_fx
    \/ handle_set_voice_fx
    \/ handle_home
    \/ handle_message
    \/ handle_voice

SpecSession == InitSession /\ [][NextSession]_vars

(***************************************************************************)
(* Claim about the home menu (checked under SpecSession).                  *)
(***************************************************************************)
\* C30: a voice message that is the next update after handle_home is
\* routed to translation, whatever buttons came before handle_home.
C30_VoiceAfterHomeIsTranslated ==
    [][(last_update = "home" /\ last_update' = "voice") =>
           routed' = "handle_voice_translation"]_vars

====
